---- MODULE Spec2Model ----
(***************************************************************************)
(* The resource pruning engine of the operator's HelmReconciler: the       *)
(* ordered kind lists, Prune, DeleteComponent, the by-revision deletion    *)
(* path and deleteResources, with the process-wide object cache; and the    *)
(* version-gated dispatcher of the upgrade hooks with its two hooks.       *)
(***************************************************************************)
EXTENDS Integers, Sequences, FiniteSets, TLC

\* ---------------------------------------------------------------- bounds

\* At most this many delete calls of one pass are answered with a failure
\* (not-found, forbidden, webhook unavailable) by the cluster.
MaxFaults == 1

\* ------------------------------------------------------ resource kinds

GVK(g, v, k) == [Group |-> g, Version |-> v, Kind |-> k]

NamespacedResources ==
    << GVK("autoscaling", "v2beta1", "HorizontalPodAutoscaler"),
       GVK("policy", "v1beta1", "PodDisruptionBudget"),
       GVK("apps", "v1", "Deployment"),
       GVK("apps", "v1", "DaemonSet"),
       GVK("", "v1", "Service"),
       GVK("", "v1", "ConfigMap"),
       GVK("", "v1", "PersistentVolumeClaim"),
       GVK("", "v1", "Pod"),
       GVK("", "v1", "Secret"),
       GVK("", "v1", "ServiceAccount"),
       GVK("rbac.authorization.k8s.io", "v1", "RoleBinding"),
       GVK("rbac.authorization.k8s.io", "v1", "Role"),
       GVK("networking.istio.io", "v1alpha3", "DestinationRule"),
       GVK("networking.istio.io", "v1alpha3", "EnvoyFilter"),
       GVK("networking.istio.io", "v1alpha3", "Gateway"),
       GVK("networking.istio.io", "v1alpha3", "VirtualService"),
       GVK("security.istio.io", "v1beta1", "PeerAuthentication") >>

\* ClusterResources, the same with the cluster roles ahead of the webhook
\* configurations, and the same with the entry for CRDs that the source keeps
\* commented out.
ClusterResourcesRolesFirst ==
    << GVK("rbac.authorization.k8s.io", "v1", "ClusterRole"),
       GVK("rbac.authorization.k8s.io", "v1", "ClusterRoleBinding"),
       GVK("admissionregistration.k8s.io", "v1beta1", "MutatingWebhookConfiguration"),
       GVK("admissionregistration.k8s.io", "v1beta1", "ValidatingWebhookConfiguration") >>

ClusterResourcesWithCRD ==
    << GVK("admissionregistration.k8s.io", "v1beta1", "MutatingWebhookConfiguration"),
       GVK("admissionregistration.k8s.io", "v1beta1", "ValidatingWebhookConfiguration"),
       GVK("rbac.authorization.k8s.io", "v1", "ClusterRole"),
       GVK("rbac.authorization.k8s.io", "v1", "ClusterRoleBinding"),
       GVK("apiextensions.k8s.io", "v1beta1", "CustomResourceDefinition") >>

ClusterResources ==
    << GVK("admissionregistration.k8s.io", "v1beta1", "MutatingWebhookConfiguration"),
       GVK("admissionregistration.k8s.io", "v1beta1", "ValidatingWebhookConfiguration"),
       GVK("rbac.authorization.k8s.io", "v1", "ClusterRole"),
       GVK("rbac.authorization.k8s.io", "v1", "ClusterRoleBinding") >>

NonNamespacedCPResources ==
    << GVK("admissionregistration.k8s.io", "v1beta1", "MutatingWebhookConfiguration") >>

AllClusterResources ==
    NonNamespacedCPResources
        \o << GVK("apiextensions.k8s.io", "v1beta1", "CustomResourceDefinition") >>

\* The kinds runForAllTypes scans, in scan order, and a scan in the wrong
\* order (cluster-scoped kinds first).
ScanKindsClusterFirst == ClusterResources \o NamespacedResources

ScanKinds == NamespacedResources \o ClusterResources

\* The kinds GetPrunedResourcesByRevision scans.
RevisionKinds(purge) ==
    IF purge THEN AllClusterResources
    ELSE NamespacedResources \o NonNamespacedCPResources

\* ------------------------------------------------------------- labels

operatorLabelStr == "operator.istio.io/managed"
operatorReconcileStr == "Reconcile"
OwningResourceName == "install.operator.istio.io/owning-resource"
IstioComponentLabelStr == "operator.istio.io/component"
IstioRev == "istio.io/rev"
istioDefaultNamespace == "istio-system"
PilotComponentName == "Pilot"
IngressComponentName == "IngressGateways"

NoLabels == [k \in {} |-> ""]

\* klabels.Set(labels).AsSelectorPreValidated().Matches(objLabels): every key
\* of the selector is on the object with the same value; and a match on the
\* keys alone.
MatchesKeysOnly(selector, objLabels) ==
    \A k \in DOMAIN selector : k \in DOMAIN objLabels

Matches(selector, objLabels) ==
    \A k \in DOMAIN selector :
        k \in DOMAIN objLabels /\ objLabels[k] = selector[k]

\* A selector with the requirement "key exists" added (selection.Exists).
MatchesWithExists(selector, key, objLabels) ==
    Matches(selector, objLabels) /\ key \in DOMAIN objLabels

\* The core ownership labels of an installation; err when the owning custom
\* resource cannot be located.
getCoreOwnerLabels(inst, located) ==
    IF located
    THEN [labels |-> (operatorLabelStr :> operatorReconcileStr)
                        @@ (OwningResourceName :> inst),
          err |-> FALSE]
    ELSE [labels |-> NoLabels, err |-> TRUE]

\* The component selector: the core labels plus the component label, or the
\* core labels alone for the empty component name; and the same adding the
\* component label for the empty name too.
addComponentLabelsAlways(coreLabels, componentName) ==
    (IstioComponentLabelStr :> componentName) @@ coreLabels

addComponentLabels(coreLabels, componentName) ==
    IF componentName = "" THEN coreLabels
    ELSE (IstioComponentLabelStr :> componentName) @@ coreLabels

\* ------------------------------------------------------------ objects

Obj(gvk, ns, name, labels) ==
    [gvk |-> gvk, ns |-> ns, name |-> name, labels |-> labels]

\* object.K8sObject.Hash, and a hash that leaves the name out.
HashWithoutName(o) == << o.gvk.Group, o.gvk.Version, o.gvk.Kind, o.ns >>

Hash(o) == << o.gvk.Group, o.gvk.Version, o.gvk.Kind, o.ns, o.name >>

\* object.AllObjectHashes(manifest): the hashes of the objects a rendered
\* manifest holds.
AllObjectHashes(manifest) == { Hash(o) : o \in manifest }

Installs == {"i1", "i2"}

OwnedLabels(inst, comp, rev) ==
    (operatorLabelStr :> operatorReconcileStr) @@ (OwningResourceName :> inst)
        @@ (IstioComponentLabelStr :> comp) @@ (IstioRev :> rev)

HPAKind == NamespacedResources[1]
DeploymentKind == NamespacedResources[3]
ClusterRoleKind == ClusterResources[3]
MutatingWebhookKind == ClusterResources[1]
CRDKind == AllClusterResources[2]

oHPA == Obj(HPAKind, istioDefaultNamespace, "istiod",
            OwnedLabels("i1", PilotComponentName, "r1"))
oDeploy == Obj(DeploymentKind, istioDefaultNamespace, "istiod",
               OwnedLabels("i1", PilotComponentName, "r1"))
oGateway == Obj(DeploymentKind, istioDefaultNamespace, "istio-ingressgateway",
                OwnedLabels("i1", IngressComponentName, "r1") @@ ("app" :> "gw"))
oClusterRole == Obj(ClusterRoleKind, "", "istiod-istio-system",
                    OwnedLabels("i1", PilotComponentName, "r1"))
oOther == Obj(DeploymentKind, istioDefaultNamespace, "istiod-canary",
              OwnedLabels("i2", PilotComponentName, "r2"))

oWebhook == Obj(MutatingWebhookKind, "", "istio-sidecar-injector",
                OwnedLabels("i1", PilotComponentName, "r1"))
oUnlabelled == Obj(DeploymentKind, istioDefaultNamespace, "user-app", NoLabels)
oCRD == Obj(CRDKind, "", "gateways.networking.istio.io",
            OwnedLabels("i1", PilotComponentName, "r1"))

\* The objects of the modelled cluster, in the order a list call returns them.
UniverseSeq ==
    << oHPA, oDeploy, oGateway, oOther, oUnlabelled, oWebhook, oClusterRole, oCRD >>

Range(s) == { s[i] : i \in 1..Len(s) }

Universe == Range(UniverseSeq)

\* ------------------------------------------------------------- errors

\* An error value: its kind (reason) and its text, a sequence of tokens.
NilErr == [reason |-> "", msg |-> << >>]

IsNil(e) == e.reason = ""

NotFoundErr(o) ==
    [reason |-> "NotFound", msg |-> << o.gvk.Kind, o.name, "not found" >>]

ForbiddenErr(o) ==
    [reason |-> "Forbidden", msg |-> << o.gvk.Kind, o.name, "is forbidden" >>]

\* An admission webhook whose backing service is gone:
\* Internal error occurred: failed calling webhook ...: service ... not found
WebhookErr(o) ==
    [reason |-> "InternalError",
     msg |-> << "failed calling webhook for", o.gvk.Kind, o.name,
                "service", "not found" >>]

\* strings.Contains(err.Error(), "not found")
ContainsNotFound(e) == \E i \in 1..Len(e.msg) : e.msg[i] = "not found"

\* util.AppendErr
AppendErr(errs, err) == IF IsNil(err) THEN errs ELSE Append(errs, err)

RECURSIVE JoinMsgs(_)
JoinMsgs(errs) ==
    IF Len(errs) = 0 THEN << >>
    ELSE IF Len(errs) = 1 THEN errs[1].msg
    ELSE errs[1].msg \o << ", " >> \o JoinMsgs(Tail(errs))

\* util.Errors.ToError: nil for no errors, else one error whose text joins them.
ToError(errs) ==
    IF Len(errs) = 0 THEN NilErr
    ELSE [reason |-> "Errors", msg |-> JoinMsgs(errs)]

\* fmt.Errorf(prefix + ": %v", err)
WrapErr(prefix, err) == [reason |-> "Wrapped", msg |-> << prefix >> \o err.msg]

\* Whether the text of error e contains the text txt.
HasText(e, txt) ==
    \E i \in 0..(Len(e.msg) - Len(txt)) : SubSeq(e.msg, i + 1, i + Len(txt)) = txt

\* ------------------------------------------------------- object cache

Components == {"", PilotComponentName, IngressComponentName}

\* getCRHash: the owner key of a component of the installation of h.
getCRHash(inst, componentName) == << inst, componentName >>

CacheKeys == { getCRHash(i, c) : i \in Installs, c \in Components }

\* cache.RemoveObject
RemoveObject(caches, crHash, objHash) ==
    [caches EXCEPT ![crHash] = @ \ {objHash}]

\* cache.FlushObjectCaches
FlushObjectCaches == [k \in CacheKeys |-> {}]

\* removeFromObjectCache, a removal under the installation-wide key instead
\* of the component's, one that enters the hash when it is absent, and one
\* that removes the hash under the component's key of every installation.
removeFromObjectCacheEveryOwner(caches, inst, componentName, objHash) ==
    [k \in CacheKeys |->
        IF k[2] = componentName THEN caches[k] \ {objHash} ELSE caches[k]]

removeFromObjectCacheToggle(caches, inst, componentName, objHash) ==
    IF objHash \in caches[getCRHash(inst, componentName)]
    THEN RemoveObject(caches, getCRHash(inst, componentName), objHash)
    ELSE [caches EXCEPT ![getCRHash(inst, componentName)] = @ \cup {objHash}]

removeFromObjectCacheWrongKey(caches, inst, componentName, objHash) ==
    RemoveObject(caches, getCRHash(inst, ""), objHash)

removeFromObjectCache(caches, inst, componentName, objHash) ==
    RemoveObject(caches, getCRHash(inst, componentName), objHash)

\* ---------------------------------------------------------- the cluster

Faults == {"None", "Gone", "Forbidden", "WebhookDown"}

\* client.Delete with background propagation: the new set of live objects and
\* the error. "Gone": another actor removed the object first.
ClientDelete(live, o, fault) ==
    CASE fault = "Forbidden" -> [live |-> live, err |-> ForbiddenErr(o)]
      [] fault = "WebhookDown" -> [live |-> live, err |-> WebhookErr(o)]
      [] fault = "Gone" -> [live |-> live \ {o}, err |-> NotFoundErr(o)]
      [] OTHER -> IF o \in live
                  THEN [live |-> live \ {o}, err |-> NilErr]
                  ELSE [live |-> live, err |-> NotFoundErr(o)]

\* client.List of one kind under "selector and key exists".
ClientList(live, gvk, selector, key) ==
    SelectSeq(UniverseSeq,
              LAMBDA o : /\ o \in live
                         /\ o.gvk = gvk
                         /\ MatchesWithExists(selector, key, o.labels))

\* ------------------------------------------------------ deleteResources

\* The filter of deleteResources (selective mode: selector, then exclusion),
\* and the same without the exclusion set, and without the selector.
EligibleIgnoringExcluded(o, selector, excluded, all) ==
    all \/ Matches(selector, o.labels)

EligibleIgnoringSelector(o, selector, excluded, all) ==
    all \/ Hash(o) \notin excluded

Eligible(o, selector, excluded, all) ==
    all \/ (Matches(selector, o.labels) /\ Hash(o) \notin excluded)

\* One iteration of the loop of deleteResources over object o.
\* w: the cluster, the object cache and the calls issued so far;
\* c: the call's parameters (excluded, selector, componentName, all) and the
\* reconciler's (inst, dryRun), the position k of the kind list and the
\* cluster's answers (fault).
DeleteOneDryRunFirst(w, errs, o, c) ==
    IF c.dryRun
    THEN [w |-> [w EXCEPT !.report = Append(@, [o |-> o, comp |-> c.componentName])],
          errs |-> errs]
    ELSE IF ~Eligible(o, c.selector, c.excluded, c.all)
    THEN [w |-> w, errs |-> errs]
    ELSE LET r == ClientDelete(w.live, o, c.fault[o])
         IN [w |-> [w EXCEPT
                      !.live = r.live,
                      !.deletes = Append(@, [k |-> c.k, o |-> o,
                                             comp |-> c.componentName,
                                             all |-> c.all, err |-> r.err]),
                      !.cache = IF c.all THEN @
                                ELSE removeFromObjectCache(@, c.inst,
                                         c.componentName, Hash(o))],
             errs |-> IF ~IsNil(r.err) /\ ~ContainsNotFound(r.err)
                      THEN AppendErr(errs, r.err) ELSE errs]

DeleteOne(w, errs, o, c) ==
    IF ~Eligible(o, c.selector, c.excluded, c.all)
    THEN [w |-> w, errs |-> errs]
    ELSE IF c.dryRun
    THEN [w |-> [w EXCEPT !.report = Append(@, [o |-> o, comp |-> c.componentName])],
          errs |-> errs]
    ELSE LET r == ClientDelete(w.live, o, c.fault[o])
         IN [w |-> [w EXCEPT
                      !.live = r.live,
                      !.deletes = Append(@, [k |-> c.k, o |-> o,
                                             comp |-> c.componentName,
                                             all |-> c.all, err |-> r.err]),
                      !.cache = IF c.all THEN @
                                ELSE removeFromObjectCache(@, c.inst,
                                         c.componentName, Hash(o))],
             errs |-> IF ~IsNil(r.err) /\ ~ContainsNotFound(r.err)
                      THEN AppendErr(errs, r.err) ELSE errs]

RECURSIVE DeleteLoop(_, _, _, _)
DeleteLoop(w, errs, objects, c) ==
    IF Len(objects) = 0 THEN [w |-> w, errs |-> errs]
    ELSE LET r == DeleteOne(w, errs, Head(objects), c)
         IN DeleteLoop(r.w, r.errs, Tail(objects), c)

\* deleteResources(excluded, coreLabels, componentName, objects, all) of the
\* reconciler env (inst, dryRun) at kind position env.k: the new w and the
\* returned error.
deleteResources(w, excluded, coreLabels, componentName, objects, all, env) ==
    LET c == [excluded |-> excluded,
              selector |-> addComponentLabels(coreLabels, componentName),
              componentName |-> componentName, all |-> all,
              inst |-> env.inst, dryRun |-> env.dryRun, k |-> env.k,
              fault |-> env.fault]
        r == DeleteLoop(w, << >>, objects, c)
        w2 == IF all THEN [r.w EXCEPT !.cache = FlushObjectCaches] ELSE r.w
    IN [w |-> w2, err |-> ToError(r.errs)]

\* ------------------------------------------- versions and constraints

\* A version string is held as the sequence of its dot-separated parts:
\* "1.4.0" is << "1", "4", "0" >>, "" is << >>.
Numerals ==
    ("0" :> 0) @@ ("1" :> 1) @@ ("2" :> 2) @@ ("3" :> 3) @@ ("4" :> 4)
        @@ ("5" :> 5) @@ ("6" :> 6)

\* version.NewVersion: every part a number; fewer than three parts are padded
\* with zeros. si is the number of parts the string gave.
NewVersion(verStr) ==
    IF Len(verStr) = 0 \/ \E i \in 1..Len(verStr) : verStr[i] \notin DOMAIN Numerals
    THEN [err |-> [reason |-> "MalformedVersion",
                   msg |-> << "Malformed version:" >> \o verStr],
          segments |-> << >>, si |-> 0]
    ELSE [err |-> NilErr,
          segments |-> [i \in 1..(IF Len(verStr) < 3 THEN 3 ELSE Len(verStr)) |->
                           IF i <= Len(verStr) THEN Numerals[verStr[i]] ELSE 0],
          si |-> Len(verStr)]

\* Version.Compare: -1, 0 or 1, part by part from the left, a missing part
\* counting as zero.
RECURSIVE CompareFrom(_, _, _)
CompareFrom(v, c, i) ==
    LET vi == IF i <= Len(v.segments) THEN v.segments[i] ELSE 0
        ci == IF i <= Len(c.segments) THEN c.segments[i] ELSE 0
    IN IF i > Len(v.segments) /\ i > Len(c.segments) THEN 0
       ELSE IF vi < ci THEN -1
       ELSE IF vi > ci THEN 1
       ELSE CompareFrom(v, c, i + 1)

Compare(v, c) == CompareFrom(v, c, 1)

\* The operators of a constraint. "~>" is the pessimistic operator.
ConstraintOps == {"", "=", "!=", ">", "<", ">=", "<=", "~>"}

\* One operator applied to version v and the constraint's version c.
ConstraintHolds(op, v, c) ==
    CASE op \in {"", "="} -> Compare(v, c) = 0
      [] op = "!=" -> Compare(v, c) # 0
      [] op = ">" -> Compare(v, c) = 1
      [] op = "<" -> Compare(v, c) = -1
      [] op = ">=" -> Compare(v, c) >= 0
      [] op = "<=" -> Compare(v, c) <= 0
      [] OTHER -> /\ Compare(v, c) >= 0
                  /\ c.si <= v.si
                  /\ \A i \in 1..(c.si - 1) : v.segments[i] = c.segments[i]
                  /\ c.segments[c.si] <= v.segments[c.si]

\* A constraint string is held as the sequence of its comma-separated parts,
\* each an operator and a version string: ">=1.3" is
\* << [op |-> ">=", ver |-> << "1", "3" >>] >>.
\* version.NewConstraint: the error of the first part that does not parse.
RECURSIVE NewConstraint(_)
NewConstraint(constraintStr) ==
    IF Len(constraintStr) = 0 THEN [err |-> NilErr, parts |-> << >>]
    ELSE LET part == Head(constraintStr)
             c == NewVersion(part.ver)
         IN IF part.op \notin ConstraintOps \/ ~IsNil(c.err)
            THEN [err |-> [reason |-> "MalformedConstraint",
                           msg |-> << "Malformed constraint:", part.op >> \o part.ver],
                  parts |-> << >>]
            ELSE LET rest == NewConstraint(Tail(constraintStr))
                 IN IF ~IsNil(rest.err) THEN rest
                    ELSE [err |-> NilErr,
                          parts |-> << [op |-> part.op, check |-> c] >> \o rest.parts]

\* Constraints.Check: every part holds of the version.
Check(constraint, ver) ==
    \A i \in 1..Len(constraint.parts) :
        ConstraintHolds(constraint.parts[i].op, ver, constraint.parts[i].check)

\* checkConstraint(verStr, constraintStr): (bool, error).
checkConstraint(verStr, constraintStr) ==
    LET ver == NewVersion(verStr)
        constraint == NewConstraint(constraintStr)
    IN IF ~IsNil(ver.err) THEN [ok |-> FALSE, err |-> ver.err]
       ELSE IF ~IsNil(constraint.err) THEN [ok |-> FALSE, err |-> constraint.err]
       ELSE [ok |-> Check(constraint, ver), err |-> NilErr]

\* checkHookListEntry(h, hc), and the same without the target constraint.
checkHookListEntrySourceOnly(h, hc) ==
    LET s == checkConstraint(hc.SourceVer, h.sourceVersionConstraint)
    IN IF ~IsNil(s.err) THEN [matches |-> FALSE, err |-> s.err]
       ELSE [matches |-> s.ok, err |-> NilErr]

checkHookListEntry(h, hc) ==
    LET s == checkConstraint(hc.SourceVer, h.sourceVersionConstraint)
        t == checkConstraint(hc.TargetVer, h.targetVersionConstraint)
    IN IF ~IsNil(s.err) THEN [matches |-> FALSE, err |-> s.err]
       ELSE IF ~s.ok THEN [matches |-> FALSE, err |-> NilErr]
       ELSE IF ~IsNil(t.err) THEN [matches |-> FALSE, err |-> t.err]
       ELSE IF ~t.ok THEN [matches |-> FALSE, err |-> NilErr]
       ELSE [matches |-> TRUE, err |-> NilErr]

\* util.NewErrs and util.AppendErrs.
NewErrs(err) == IF IsNil(err) THEN << >> ELSE << err >>

AppendErrs(errs, more) == errs \o SelectSeq(more, LAMBDA e : ~IsNil(e))

\* ------------------------------------------------------ upgrade hooks

istioNamespace == "istio-system"

CRKindNamesMap ==
    ("instance" :> << "requestsize", "requestcount, requestduration", "attributes" >>)
        @@ ("rule" :> << "promhttp", "kubeattrgenrulerule" >>)
        @@ ("handler" :> << "prometheus", "kubernetesenv" >>)

KindResourceMap ==
    ("instance" :> "instances") @@ ("rule" :> "rules") @@ ("handler" :> "handlers")

\* strings.Contains(s, substr) over a string held as a sequence of pieces.
StringsContains(s, substr) == \E i \in 1..Len(s) : s[i] = substr

\* kubeClient.PodsForSelector(namespace, ""): the pods of the namespace.
PodsForSelector(k, namespace, selector) ==
    IF k.podsErr
    THEN [err |-> [reason |-> "ServerTimeout", msg |-> << "pods: request timed out" >>],
          items |-> << >>]
    ELSE [err |-> NilErr,
          items |-> SelectSeq(k.pods, LAMBDA p : p.ns = namespace)]

\* util.NewErrs(fmt.Errorf("istio-init-crd pods exist: %v. ...", p.Name))
InitCrdErrs(p) ==
    NewErrs([reason |-> "InitCrdPods",
             msg |-> << "istio-init-crd pods exist:" >> \o p.name
                        \o << "please migrate to operator installation first" >>])

\* The loop of checkInitCrdJobs over the listed pods, and the same looking at
\* the first pod only.
InitCrdLoopFirstOnly(items) ==
    IF Len(items) = 0 THEN << >>
    ELSE IF StringsContains(Head(items).name, "istio-init-crd")
    THEN InitCrdErrs(Head(items))
    ELSE << >>

RECURSIVE InitCrdLoop(_)
InitCrdLoop(items) ==
    IF Len(items) = 0 THEN << >>
    ELSE IF StringsContains(Head(items).name, "istio-init-crd")
    THEN InitCrdErrs(Head(items))
    ELSE InitCrdLoop(Tail(items))

checkInitCrdJobs(k, params) ==
    LET pl == PodsForSelector(k, params.RootNamespace, "")
    IN IF ~IsNil(pl.err)
       THEN NewErrs(WrapErr("failed to list pods:", pl.err))
       ELSE InitCrdLoop(pl.items)

\* YAML text is held as the sequence of its lines, a line as the path of keys
\* followed by the scalar. The keys the modelled specs use, in sorted order.
YAMLKeyOrder == << "actions", "match" >>

\* yaml.Marshal of a map of scalars: one line per key, keys sorted.
yamlMarshal(fields) ==
    LET ks == SelectSeq(YAMLKeyOrder, LAMBDA key : key \in DOMAIN fields)
    IN [i \in 1..Len(ks) |-> << ks[i], fields[ks[i]] >>]

\* K8sObject.YAML: the YAML of the whole object (the default objects are whole
\* manifest objects, their spec one field among apiVersion, kind, metadata).
K8sObjectYAML(o) ==
    LET specYAML == yamlMarshal(o.spec)
    IN << << "apiVersion", "config.istio.io/v1alpha2" >>,
          << "kind", o.kind >>,
          << "metadata", "name", o.name >>,
          << "metadata", "namespace", istioNamespace >> >>
       \o [i \in 1..Len(specYAML) |-> << "spec" >> \o specYAML[i]]

RECURSIVE DiffLines(_, _, _)
DiffLines(sign, lines, other) ==
    IF Len(lines) = 0 THEN << >>
    ELSE (IF Head(lines) \in other THEN << >> ELSE << sign >> \o Head(lines))
            \o DiffLines(sign, Tail(lines), other)

\* util.YAMLDiff(a, b): both texts are unmarshalled and marshalled again, then
\* compared line by line; the empty text when they hold the same document.
YAMLDiff(a, b) ==
    DiffLines("-", a, Range(b)) \o DiffLines("+", b, Range(a))

\* kubeClient.GetGroupVersionResource(configAPIGroup, configAPIVersion,
\* resource, ns, name): the custom resources of that name (of any name for "").
GetGroupVersionResource(k, resource, namespace, name) ==
    IF resource \in k.getErr
    THEN [err |-> [reason |-> "ServiceUnavailable",
                   msg |-> << "the server is currently unable to handle the request", resource >>],
          items |-> << >>]
    ELSE [err |-> NilErr,
          items |-> SelectSeq(k.crs,
                      LAMBDA it : /\ KindResourceMap[it.kind] = resource
                                  /\ it.ns = namespace
                                  /\ (name = "" \/ it.name = name))]

\* The catalogue in the order the iteration over CRKindNamesMap visits it:
\* the kinds in kindOrder, the names of a kind as listed.
RECURSIVE CatalogueIn(_)
CatalogueIn(kindOrder) ==
    IF Len(kindOrder) = 0 THEN << >>
    ELSE [i \in 1..Len(CRKindNamesMap[Head(kindOrder)]) |->
             [kind |-> Head(kindOrder), name |-> CRKindNamesMap[Head(kindOrder)][i]]]
         \o CatalogueIn(Tail(kindOrder))

\* The loops of checkMixerTelemetry over the entries of the catalogue, and
\* the same returning at the first entry the cluster does not hold.
RECURSIVE MixerTelemetryLoopStopAtMissing(_, _, _)
MixerTelemetryLoopStopAtMissing(k, nkMap, entries) ==
    IF Len(entries) = 0 THEN << >>
    ELSE LET kind == Head(entries).kind
             name == Head(entries).name
             uls == GetGroupVersionResource(k, KindResourceMap[kind],
                                            istioNamespace, name)
             nkKey == << name, ":", kind >>
         IN IF ~IsNil(uls.err) THEN NewErrs(uls.err)
            ELSE IF Len(uls.items) = 0 THEN << >>
            ELSE IF nkKey \notin DOMAIN nkMap
            THEN MixerTelemetryLoopStopAtMissing(k, nkMap, Tail(entries))
            ELSE LET item == uls.items[1] IN
                 IF ~item.spec.isMap
                 THEN NewErrs([reason |-> "NoSpec",
                               msg |-> << "failed to get spec from unstructured item of kind:",
                                          kind, "name:", name >>])
                 ELSE LET diff == YAMLDiff(yamlMarshal(item.spec.fields),
                                           K8sObjectYAML(nkMap[nkKey]))
                      IN IF diff # << >>
                         THEN NewErrs([reason |-> "Customized",
                                  msg |-> << "customized config exists for kind:", kind,
                                             "name:", name, "diff is:" >> \o diff
                                             \o << "please check existing mixer config first before upgrade" >>])
                         ELSE MixerTelemetryLoopStopAtMissing(k, nkMap, Tail(entries))

RECURSIVE MixerTelemetryLoop(_, _, _)
MixerTelemetryLoop(k, nkMap, entries) ==
    IF Len(entries) = 0 THEN << >>
    ELSE LET kind == Head(entries).kind
             name == Head(entries).name
             uls == GetGroupVersionResource(k, KindResourceMap[kind],
                                            istioNamespace, name)
             nkKey == << name, ":", kind >>
         IN IF ~IsNil(uls.err) THEN NewErrs(uls.err)
            ELSE IF Len(uls.items) = 0
            THEN MixerTelemetryLoop(k, nkMap, Tail(entries))
            ELSE IF nkKey \notin DOMAIN nkMap
            THEN MixerTelemetryLoop(k, nkMap, Tail(entries))
            ELSE LET item == uls.items[1] IN
                 IF ~item.spec.isMap
                 THEN NewErrs([reason |-> "NoSpec",
                               msg |-> << "failed to get spec from unstructured item of kind:",
                                          kind, "name:", name >>])
                 ELSE LET specYAML == yamlMarshal(item.spec.fields)
                          msYAML == K8sObjectYAML(nkMap[nkKey])
                          diff == YAMLDiff(specYAML, msYAML)
                      IN IF diff # << >>
                         THEN NewErrs([reason |-> "Customized",
                                  msg |-> << "customized config exists for kind:", kind,
                                             "name:", name, "diff is:" >> \o diff
                                             \o << "please check existing mixer config first before upgrade" >>])
                         ELSE MixerTelemetryLoop(k, nkMap, Tail(entries))

\* checkMixerTelemetry(kubeClient, params), the iteration over the map of
\* kinds taking the order kindOrder.
checkMixerTelemetry(k, params, kindOrder) ==
    MixerTelemetryLoop(k, params.DefaultTelemetryManifest, CatalogueIn(kindOrder))

\* The list-based checkMixerTelemetry and its two extractions.

\* extractTargetKNMapFromDefault(nkMap): the YAML of the spec of the default
\* of every catalogued kind and name, under the key kind:name (the specs of
\* the modelled defaults are all maps).
extractTargetKNMapFromDefault(nkMap) ==
    LET keys == { << e.kind, ":", e.name >> :
                    e \in Range(CatalogueIn(<< "instance", "rule", "handler" >>)) }
    IN [err |-> NilErr,
        checkMap |-> [knKey \in keys \cap DOMAIN nkMap |-> yamlMarshal(nkMap[knKey].spec)]]

\* The loop of extractKNMapFromCluster over the listed items of one kind.
RECURSIVE ClusterItemsLoop(_, _, _)
ClusterItemsLoop(kind, items, knYAMLMap) ==
    IF Len(items) = 0 THEN [err |-> NilErr, knYAMLMap |-> knYAMLMap]
    ELSE LET item == Head(items) IN
         IF ~item.spec.isMap
         THEN [err |-> [reason |-> "NoSpec",
                        msg |-> << "failed to get spec from unstructured item of kind:",
                                   kind, "name:", item.name >>],
               knYAMLMap |-> knYAMLMap]
         ELSE ClusterItemsLoop(kind, Tail(items),
                  (<< kind, ":", item.name >> :> yamlMarshal(item.spec.fields))
                      @@ knYAMLMap)

\* extractKNMapFromCluster(kubeClient), the iteration over the map of kinds
\* taking the order kindOrder.
RECURSIVE extractKNMapFromCluster(_, _, _)
extractKNMapFromCluster(k, kindOrder, knYAMLMap) ==
    IF Len(kindOrder) = 0 THEN [err |-> NilErr, knYAMLMap |-> knYAMLMap]
    ELSE LET kind == Head(kindOrder)
             uls == GetGroupVersionResource(k, KindResourceMap[kind], istioNamespace, "")
         IN IF ~IsNil(uls.err) THEN [err |-> uls.err, knYAMLMap |-> knYAMLMap]
            ELSE LET r == ClusterItemsLoop(kind, uls.items, knYAMLMap)
                 IN IF ~IsNil(r.err) THEN r
                    ELSE extractKNMapFromCluster(k, Tail(kindOrder), r.knYAMLMap)

\* The loop of the list-based checkMixerTelemetry over the resources of the
\* cluster, in the order nkOrder; and the same passing over a resource that
\* has no default.
RECURSIVE CompareWithDefaultsPassingExtra(_, _, _)
CompareWithDefaultsPassingExtra(nkOrder, knMapDefault, knMapCluster) ==
    IF Len(nkOrder) = 0 THEN << >>
    ELSE LET nk == Head(nkOrder) IN
         IF nk \notin DOMAIN knMapDefault
         THEN CompareWithDefaultsPassingExtra(Tail(nkOrder), knMapDefault, knMapCluster)
         ELSE LET diff == YAMLDiff(knMapDefault[nk], knMapCluster[nk])
              IN IF diff # << >>
                 THEN NewErrs([reason |-> "Customized",
                          msg |-> << "customized config exists for" >> \o nk
                                     \o << "diff is:" >> \o diff
                                     \o << "please check existing mixer config first before upgrade" >>])
                 ELSE CompareWithDefaultsPassingExtra(Tail(nkOrder), knMapDefault,
                                                      knMapCluster)

RECURSIVE CompareWithDefaults(_, _, _)
CompareWithDefaults(nkOrder, knMapDefault, knMapCluster) ==
    IF Len(nkOrder) = 0 THEN << >>
    ELSE LET nk == Head(nkOrder) IN
         IF nk \notin DOMAIN knMapDefault
         THEN NewErrs([reason |-> "Extra",
                       msg |-> << "there are extra mixer configs in cluster" >>])
         ELSE LET diff == YAMLDiff(knMapDefault[nk], knMapCluster[nk])
              IN IF diff # << >>
                 THEN NewErrs([reason |-> "Customized",
                          msg |-> << "customized config exists for" >> \o nk
                                     \o << "diff is:" >> \o diff
                                     \o << "please check existing mixer config first before upgrade" >>])
                 ELSE CompareWithDefaults(Tail(nkOrder), knMapDefault, knMapCluster)

\* checkMixerTelemetry(kubeClient, params) of the list-based variant, the
\* iterations over the maps taking the orders kindOrder and nkOrder.
checkMixerTelemetryList(k, params, kindOrder, nkOrder) ==
    LET d == extractTargetKNMapFromDefault(params.DefaultTelemetryManifest)
        c == extractKNMapFromCluster(k, kindOrder, [nk \in {} |-> << >>])
    IN IF ~IsNil(d.err) THEN NewErrs(d.err)
       ELSE IF ~IsNil(c.err) THEN NewErrs(c.err)
       ELSE CompareWithDefaults(
                SelectSeq(nkOrder, LAMBDA nk : nk \in DOMAIN c.knYAMLMap),
                d.checkMap, c.knYAMLMap)

\* A hook applied by name.
ApplyHook(hf, k, params, kindOrder) ==
    IF hf = "checkInitCrdJobs" THEN checkInitCrdJobs(k, params)
    ELSE checkMixerTelemetry(k, params, kindOrder)

GE13 == << [op |-> ">=", ver |-> << "1", "3" >>] >>

preUpgradeHooks ==
    << [sourceVersionConstraint |-> GE13, targetVersionConstraint |-> GE13,
        hooks |-> << "checkInitCrdJobs", "checkMixerTelemetry" >>] >>

postUpgradeHooks == << >>

\* ------------------------------------------------- applying the manifests

\* The output on stderr that is no error: the warning of kubectl apply, here
\* in two parts.
ignoreStdErrList ==
    << << "Warning: kubectl apply should be used on resource created by either",
          "kubectl create --save-config or kubectl apply" >> >>

\* strings.TrimSpace: the text without its leading and trailing white space.
TrimSpace(s) ==
    LET solid == { i \in 1..Len(s) : s[i] \notin {" ", "\n"} }
    IN IF solid = {} THEN << >>
       ELSE SubSeq(s, CHOOSE i \in solid : \A j \in solid : i <= j,
                      CHOOSE i \in solid : \A j \in solid : j <= i)

\* strings.HasPrefix.
HasPrefix(s, prefix) ==
    Len(s) >= Len(prefix) /\ SubSeq(s, 1, Len(prefix)) = prefix

\* ignoreError compared against the text as it stands.
ignoreErrorUntrimmed(stderr) ==
    \/ \E i \in 1..Len(ignoreStdErrList) : HasPrefix(stderr, ignoreStdErrList[i])
    \/ stderr = << >>

ignoreError(stderr) ==
    LET trimmedStdErr == TrimSpace(stderr) IN
    \/ \E i \in 1..Len(ignoreStdErrList) :
          HasPrefix(trimmedStdErr, ignoreStdErrList[i])
    \/ trimmedStdErr = << >>

\* The manifests after the loop over the deprecated names: each deprecated
\* name gets one more manifest, a comment, under its key (a key the map
\* lacks starts from nil).
WithDeprecated(manifests, deprecatedNames) ==
    [cn \in DOMAIN manifests \cup Range(deprecatedNames) |->
        (IF cn \in DOMAIN manifests THEN manifests[cn] ELSE << >>)
        \o (IF cn \in Range(deprecatedNames)
            THEN << << "#", cn, "component has been deprecated.\n" >> >>
            ELSE << >>)]

\* genApplyManifests on the answers in of what it calls: the error it
\* returns, the manifests it handed to ApplyAll (applied tells whether it
\* did), the last line it logged.
genApplyManifests(in) ==
    LET NotApplied(err) ==
            [err |-> err, applied |-> FALSE, manifests |-> << >>, logged |-> ""]
        manifests == WithDeprecated(in.manifests, in.DeprecatedNames)
        out == in.out
        skippedComponentMap ==
            { cn \in DOMAIN manifests :
                /\ cn \notin in.enabledInSpec
                /\ IsNil(out[cn].Err)
                /\ out[cn].Manifest = << >> }
        gotError ==
            \E cn \in DOMAIN manifests :
                \/ ~IsNil(out[cn].Err)
                \/ cn \notin skippedComponentMap /\ ~ignoreError(out[cn].Stderr)
    IN IF ~IsNil(in.treeErr)
       THEN NotApplied([reason |-> "Tree",
                        msg |-> << "failed to generate tree from the set overlay, error:" >>
                                \o in.treeErr.msg])
       ELSE IF ~IsNil(in.clientErr) THEN NotApplied(in.clientErr)
       ELSE IF ~IsNil(in.genErr)
       THEN NotApplied([reason |-> "Generate",
                        msg |-> << "failed to generate manifest:" >> \o in.genErr.msg])
       ELSE IF ~IsNil(in.applyErr)
       THEN [err |-> [reason |-> "Apply",
                      msg |-> << "failed to apply manifest with kubectl client:" >>
                              \o in.applyErr.msg],
             applied |-> TRUE, manifests |-> manifests, logged |-> ""]
       ELSE IF gotError
       THEN [err |-> [reason |-> "Logged",
                      msg |-> << "errors were logged during apply operation" >>],
             applied |-> TRUE, manifests |-> manifests,
             logged |-> "Errors were logged during apply operation"]
       ELSE [err |-> NilErr, applied |-> TRUE, manifests |-> manifests,
             logged |-> "Installation complete"]

\* No call of genApplyManifests was made.
NoApply == [pc |-> "idle"]

\* What ApplyAll may answer for one component: with or without error, with
\* or without applied manifest, with a text on stderr that is empty, white
\* space, the warning (alone between white space, or followed by more), the
\* first part of the warning only, an error, an error followed by the warning.
ApplyOutputs ==
    [Err : {NilErr, [reason |-> "Failed", msg |-> << "it failed" >>]},
     Manifest : { << >>, << "yaml" >> },
     Stderr : { << >>, << " ", "\n" >>,
                << " " >> \o ignoreStdErrList[1] \o << "\n" >>,
                ignoreStdErrList[1] \o << "\n", "deployment.apps/istiod configured" >>,
                << ignoreStdErrList[1][1] >>,
                << "error: unable to recognize" >>,
                << "error: unable to recognize", "\n" >> \o ignoreStdErrList[1] }]

\* -------------------------------------------------------------- state

VARIABLES
    live,          \* the objects living in the cluster
    apiDown,       \* the kinds whose list call fails (API not served)
    objectCaches,  \* the process-wide object cache: owner key -> object hashes
    pass,          \* per reconciler (one per installation): the call in progress
    kube,          \* the cluster as the upgrade hooks read it: pods, mixer resources
    hookRun,       \* the call of runUpgradeHooks in progress
    apply          \* the call of genApplyManifests, once made

vars == << live, apiDown, objectCaches, pass, kube, hookRun, apply >>

pruneVars == << live, apiDown, objectCaches, pass >>

hookVars == << kube, hookRun >>

\* A rendered manifest object: the object as the templates produce it, before
\* the operator labels it.
Rendered(o) == [o EXCEPT !.labels = NoLabels]

NoManifests == [c \in {} |-> {}]

\* The manifest maps (component name -> rendered objects) Prune is called with.
ManifestMaps ==
    { NoManifests,
      (PilotComponentName :> {}),
      (PilotComponentName :> {Rendered(oDeploy)}),
      (PilotComponentName :> {Rendered(oHPA), Rendered(oDeploy), Rendered(oClusterRole)})
          @@ (IngressComponentName :> {Rendered(oGateway)}),
      (PilotComponentName :> {Rendered(oGateway)}) @@ (IngressComponentName :> {}) }

Perms(S) ==
    { f \in [1..Cardinality(S) -> S] : \A i, j \in 1..Cardinality(S) : f[i] = f[j] => i = j }

NoPrev == [valid |-> FALSE, objs |-> {}]

IdlePass ==
    [pc |-> "idle", op |-> "", dryRun |-> FALSE, located |-> TRUE,
     manifests |-> NoManifests, all |-> FALSE, componentName |-> "",
     ns |-> "", revision |-> "", purge |-> FALSE, pids |-> {}, queryErr |-> FALSE,
     resources |-> << >>,
     labels |-> NoLabels, idx |-> 1, errs |-> << >>,
     deletes |-> << >>, report |-> << >>, listCalls |-> 0, listed |-> {},
     faults |-> 0,
     objectsList |-> << >>, result |-> NilErr, status |-> "",
     live0 |-> {}, cache0 |-> FlushObjectCaches, prev |-> NoPrev]

\* The cache as the apply path leaves it: each applied object's hash under the
\* key of its installation and component.
CacheOf(applied) ==
    [k \in CacheKeys |->
        { Hash(o) : o \in { x \in applied :
                              /\ OwningResourceName \in DOMAIN x.labels
                              /\ IstioComponentLabelStr \in DOMAIN x.labels
                              /\ k = getCRHash(x.labels[OwningResourceName],
                                               x.labels[IstioComponentLabelStr]) } }]

World == [live |-> live, cache |-> objectCaches, deletes |-> << >>, report |-> << >>]

\* The cluster's answers to the delete calls of one step: at most MaxFaults
\* failures in a pass.
FaultChoices(objects, used) ==
    { f \in [Range(objects) -> Faults] :
        Cardinality({ o \in Range(objects) : f[o] # "None" }) + used <= MaxFaults }

FaultsIn(deletes, fault) ==
    Cardinality({ i \in 1..Len(deletes) : fault[deletes[i].o] # "None" })

\* What the dry run of the same call reported, when the call now starting
\* repeats it for real on the same cluster.
PrevOf(old, op, dryRun, args) ==
    IF /\ old.pc = "done" /\ old.dryRun /\ ~dryRun /\ old.op = op
       /\ << old.located, old.manifests, old.all, old.componentName >> = args
       /\ old.live0 = live
    THEN [valid |-> TRUE, objs |-> { old.report[i].o : i \in 1..Len(old.report) }]
    ELSE NoPrev

\* --------------------------------------------- Prune and DeleteComponent

\* runForAllTypes up to its loop: the core labels, or their error at once;
\* and the same entering the loop whatever getCoreOwnerLabels returned.
StartScanIgnoringLabelError(h, op, dryRun, located, manifests, all, componentName) ==
    [IdlePass EXCEPT
        !.op = op, !.dryRun = dryRun, !.located = located,
        !.manifests = manifests, !.all = all,
        !.componentName = componentName,
        !.live0 = live, !.cache0 = objectCaches,
        !.prev = PrevOf(pass[h], op, dryRun,
                        << located, manifests, all, componentName >>),
        !.pc = "scan", !.labels = getCoreOwnerLabels(h, located).labels]

StartScan(h, op, dryRun, located, manifests, all, componentName) ==
    LET l == getCoreOwnerLabels(h, located)
        p == [IdlePass EXCEPT
                !.op = op, !.dryRun = dryRun, !.located = located,
                !.manifests = manifests, !.all = all,
                !.componentName = componentName,
                !.live0 = live, !.cache0 = objectCaches,
                !.prev = PrevOf(pass[h], op, dryRun,
                                << located, manifests, all, componentName >>)]
    IN IF l.err
       THEN [p EXCEPT !.pc = "done",
                      !.result = [reason |-> "NoOwner", msg |-> << "no owning resource" >>]]
       ELSE [p EXCEPT !.pc = "scan", !.labels = l.labels]

CallPrune(h) ==
    /\ pass[h].pc \in {"idle", "done"}
    /\ \E manifests \in ManifestMaps, all, dryRun, located \in BOOLEAN :
          /\ all => manifests = NoManifests
          /\ pass' = [pass EXCEPT ![h] =
                StartScan(h, "Prune", dryRun, located, manifests, all, "")]
    /\ UNCHANGED << live, apiDown, objectCaches, hookVars, apply >>

CallDeleteComponent(h) ==
    /\ pass[h].pc \in {"idle", "done"}
    /\ \E componentName \in Components, dryRun, located \in BOOLEAN :
          pass' = [pass EXCEPT ![h] =
                StartScan(h, "DeleteComponent", dryRun, located, NoManifests,
                          FALSE, componentName)]
    /\ UNCHANGED << live, apiDown, objectCaches, hookVars, apply >>

\* The loop of Prune's callback over the components of the manifest map, in
\* the order the map iteration yields them; and one deletion under the core
\* labels that spares the objects of all the manifests.
PruneComponentsAnyComponent(w, errs, order, manifests, labels, objects, env) ==
    LET r == deleteResources(w,
                 UNION { AllObjectHashes(manifests[c]) : c \in DOMAIN manifests },
                 labels, "", objects, FALSE, env)
    IN [w |-> r.w, errs |-> AppendErr(errs, r.err)]

RECURSIVE PruneComponents(_, _, _, _, _, _, _)
PruneComponents(w, errs, order, manifests, labels, objects, env) ==
    IF Len(order) = 0 THEN [w |-> w, errs |-> errs]
    ELSE LET cname == Head(order)
             r == deleteResources(w, AllObjectHashes(manifests[cname]), labels,
                                  cname, objects, FALSE, env)
         IN PruneComponents(r.w, AppendErr(errs, r.err), Tail(order),
                            manifests, labels, objects, env)

\* The callback Prune hands to runForAllTypes.
PruneCallback(w, p, objects, order, env) ==
    IF p.all
    THEN LET r == deleteResources(w, {}, p.labels, "", objects, TRUE, env)
         IN [w |-> r.w, err |-> ToError(AppendErr(<< >>, r.err))]
    ELSE LET r == PruneComponents(w, << >>, order, p.manifests, p.labels, objects, env)
         IN [w |-> r.w, err |-> ToError(r.errs)]

\* The callback DeleteComponent hands to runForAllTypes, and the same
\* deleting under the core labels whatever the component name.
DeleteComponentCallbackAnyComponent(w, p, objects, env) ==
    deleteResources(w, {}, p.labels, "", objects, FALSE, env)

DeleteComponentCallback(w, p, objects, env) ==
    deleteResources(w, {}, p.labels, p.componentName, objects, FALSE, env)

\* One iteration of the loop of runForAllTypes: list the kind, run the
\* callback; and the same returning the error of a list call that fails.
ScanStepAbortOnListError(h) ==
    LET p == pass[h] IN
    /\ p.pc = "scan"
    /\ p.idx <= Len(ScanKinds)
    /\ IF ScanKinds[p.idx] \in apiDown
       THEN /\ pass' = [pass EXCEPT ![h] =
                          [p EXCEPT !.pc = "done", !.listCalls = @ + 1,
                                    !.listed = @ \cup {ScanKinds[p.idx]},
                                    !.result = [reason |-> "NotFound",
                                                msg |-> << "no matches for kind" >>]]]
            /\ UNCHANGED << live, objectCaches >>
       ELSE LET objects == ClientList(live, ScanKinds[p.idx], p.labels,
                                      IstioComponentLabelStr)
            IN \E fault \in FaultChoices(objects, p.faults),
                  order \in Perms(DOMAIN p.manifests) :
                 LET env == [inst |-> h, dryRun |-> p.dryRun, k |-> p.idx,
                             fault |-> fault]
                     r == IF p.op = "Prune"
                          THEN PruneCallback(World, p, objects, order, env)
                          ELSE DeleteComponentCallback(World, p, objects, env)
                 IN /\ live' = r.w.live
                    /\ objectCaches' = r.w.cache
                    /\ pass' = [pass EXCEPT ![h] =
                          [p EXCEPT !.idx = @ + 1, !.listCalls = @ + 1,
                                    !.listed = @ \cup {ScanKinds[p.idx]},
                                    !.errs = AppendErr(@, r.err),
                                    !.deletes = @ \o r.w.deletes,
                                    !.report = @ \o r.w.report,
                                    !.faults = @ + FaultsIn(r.w.deletes, fault)]]
    /\ UNCHANGED << apiDown, hookVars, apply >>

ScanStep(h) ==
    LET p == pass[h] IN
    /\ p.pc = "scan"
    /\ p.idx <= Len(ScanKinds)
    /\ IF ScanKinds[p.idx] \in apiDown
       THEN /\ pass' = [pass EXCEPT ![h] =
                          [p EXCEPT !.idx = @ + 1, !.listCalls = @ + 1,
                                    !.listed = @ \cup {ScanKinds[p.idx]}]]
            /\ UNCHANGED << live, objectCaches >>
       ELSE LET objects == ClientList(live, ScanKinds[p.idx], p.labels,
                                      IstioComponentLabelStr)
            IN \E fault \in FaultChoices(objects, p.faults),
                  order \in Perms(DOMAIN p.manifests) :
                 LET env == [inst |-> h, dryRun |-> p.dryRun, k |-> p.idx,
                             fault |-> fault]
                     r == IF p.op = "Prune"
                          THEN PruneCallback(World, p, objects, order, env)
                          ELSE DeleteComponentCallback(World, p, objects, env)
                 IN /\ live' = r.w.live
                    /\ objectCaches' = r.w.cache
                    /\ pass' = [pass EXCEPT ![h] =
                          [p EXCEPT !.idx = @ + 1, !.listCalls = @ + 1,
                                    !.listed = @ \cup {ScanKinds[p.idx]},
                                    !.errs = AppendErr(@, r.err),
                                    !.deletes = @ \o r.w.deletes,
                                    !.report = @ \o r.w.report,
                                    !.faults = @ + FaultsIn(r.w.deletes, fault)]]
    /\ UNCHANGED << apiDown, hookVars, apply >>

\* The return of runForAllTypes after the loop.
ReturnScan(h) ==
    LET p == pass[h] IN
    /\ p.pc = "scan"
    /\ p.idx > Len(ScanKinds)
    /\ pass' = [pass EXCEPT ![h] = [p EXCEPT !.pc = "done", !.result = ToError(p.errs)]]
    /\ UNCHANGED << live, apiDown, objectCaches, hookVars, apply >>

\* --------------------------------------------- deletion by revision

Revisions == {"r1", "r2"}

\* The answers of proxy.GetIDsFromProxyInfo: an error, or the proxies that
\* still point to the revision.
ProxyAnswers ==
    { [err |-> TRUE, pids |-> {}],
      [err |-> FALSE, pids |-> {}],
      [err |-> FALSE, pids |-> {"sidecar~10.1.0.7~app-1.default"}] }

\* PruneControlPlaneByRevisionWithController up to its call of
\* GetPrunedResourcesByRevision, and the same without the check of the
\* proxies still pointing to the revision.
StartPruneByRevisionUnchecked(h, ns, revision, dryRun, answer) ==
    [IdlePass EXCEPT
        !.op = "PruneControlPlaneByRevisionWithController",
        !.ns = IF ns = "" THEN istioDefaultNamespace ELSE ns,
        !.revision = revision, !.dryRun = dryRun,
        !.pids = answer.pids, !.queryErr = answer.err,
        !.live0 = live, !.cache0 = objectCaches,
        !.pc = "collect"]

StartPruneByRevision(h, ns, revision, dryRun, answer) ==
    LET p == [IdlePass EXCEPT
                !.op = "PruneControlPlaneByRevisionWithController",
                !.ns = IF ns = "" THEN istioDefaultNamespace ELSE ns,
                !.revision = revision, !.dryRun = dryRun,
                !.pids = answer.pids, !.queryErr = answer.err,
                !.live0 = live, !.cache0 = objectCaches]
    IN IF answer.err
       THEN [p EXCEPT !.pc = "done", !.status = "ERROR",
                      !.result = [reason |-> "ProxyInfo",
                                  msg |-> << "failed to check proxy infos" >>]]
       ELSE IF Cardinality(answer.pids) # 0
       THEN [p EXCEPT !.pc = "done", !.status = "ERROR",
                      !.result = [reason |-> "ProxiesRemain",
                                  msg |-> << "there are proxies still pointing to the pruned control plane" >>]]
       ELSE [p EXCEPT !.pc = "collect"]

CallPruneControlPlaneByRevisionWithController(h) ==
    /\ pass[h].pc \in {"idle", "done"}
    /\ \E ns \in {"", istioDefaultNamespace}, revision \in Revisions,
          dryRun \in BOOLEAN, answer \in ProxyAnswers :
          pass' = [pass EXCEPT ![h] = StartPruneByRevision(h, ns, revision, dryRun, answer)]
    /\ UNCHANGED << live, apiDown, objectCaches, hookVars, apply >>

CallGetPrunedResourcesByRevision(h) ==
    /\ pass[h].pc \in {"idle", "done"}
    /\ \E revision \in Revisions, purge \in BOOLEAN :
          pass' = [pass EXCEPT ![h] =
              [IdlePass EXCEPT !.op = "GetPrunedResourcesByRevision",
                               !.revision = revision, !.purge = purge,
                               !.live0 = live, !.cache0 = objectCaches,
                               !.pc = "collect"]]
    /\ UNCHANGED << live, apiDown, objectCaches, hookVars, apply >>

\* One iteration of the loop of GetPrunedResourcesByRevision.
CollectStep(h) ==
    LET p == pass[h]
        gvkList == RevisionKinds(p.purge)
    IN
    /\ p.pc = "collect"
    /\ p.idx <= Len(gvkList)
    /\ IF gvkList[p.idx] \in apiDown
       THEN pass' = [pass EXCEPT ![h] =
                [p EXCEPT !.idx = @ + 1, !.listCalls = @ + 1,
                          !.listed = @ \cup {gvkList[p.idx]}]]
       ELSE LET objects == ClientList(live, gvkList[p.idx], (IstioRev :> p.revision),
                                      IstioComponentLabelStr)
            IN pass' = [pass EXCEPT ![h] =
                  [p EXCEPT !.idx = @ + 1, !.listCalls = @ + 1,
                            !.listed = @ \cup {gvkList[p.idx]},
                            !.objectsList = Append(@, objects),
                            !.resources = @ \o [i \in 1..Len(objects) |-> Hash(objects[i])]]]
    /\ UNCHANGED << live, apiDown, objectCaches, hookVars, apply >>

\* The return of GetPrunedResourcesByRevision: to its caller, or into
\* DeleteControlPlaneByRevision(revision, uslist, false) of the controller path.
ReturnCollect(h) ==
    LET p == pass[h] IN
    /\ p.pc = "collect"
    /\ p.idx > Len(RevisionKinds(p.purge))
    /\ pass' = [pass EXCEPT ![h] =
          IF p.op = "GetPrunedResourcesByRevision"
          THEN [p EXCEPT !.pc = "done"]
          ELSE [p EXCEPT !.pc = "delete", !.idx = 1]]
    /\ UNCHANGED << live, apiDown, objectCaches, hookVars, apply >>

\* The lists DeleteControlPlaneByRevision is called with: what the caller's
\* GetPrunedResourcesByRevision just returned, no list, or lists fetched
\* earlier (the objects of the cluster by kind, whatever lives now).
ObjectsLists(h) ==
    { << >>,
      << << oHPA >>, << oDeploy, oGateway, oOther, oUnlabelled >>, << oWebhook >> >> }
      \cup (IF pass[h].pc = "done" /\ pass[h].op = "GetPrunedResourcesByRevision"
            THEN { pass[h].objectsList } ELSE {})

CallDeleteControlPlaneByRevision(h) ==
    /\ pass[h].pc \in {"idle", "done"}
    /\ \E revision \in Revisions, purge, dryRun \in BOOLEAN,
          objectsList \in ObjectsLists(h) :
          pass' = [pass EXCEPT ![h] =
              [IdlePass EXCEPT !.op = "DeleteControlPlaneByRevision",
                               !.revision = revision, !.purge = purge,
                               !.dryRun = dryRun, !.objectsList = objectsList,
                               !.live0 = live, !.cache0 = objectCaches,
                               !.pc = "delete"]]
    /\ UNCHANGED << live, apiDown, objectCaches, hookVars, apply >>

\* One iteration of the loop of DeleteControlPlaneByRevision: the first list
\* whose deleteResources returns an error ends the call.
DeleteListStep(h) ==
    LET p == pass[h] IN
    /\ p.pc = "delete"
    /\ p.idx <= Len(p.objectsList)
    /\ LET objects == p.objectsList[p.idx]
           labels == IF p.purge THEN NoLabels ELSE (IstioRev :> p.revision)
       IN \E fault \in FaultChoices(objects, p.faults) :
            LET env == [inst |-> h, dryRun |-> p.dryRun, k |-> p.idx, fault |-> fault]
                r == IF ~p.purge
                     THEN deleteResources(World, {}, labels, PilotComponentName,
                                          objects, FALSE, env)
                     ELSE deleteResources(World, {}, labels, "", objects, TRUE, env)
                q == [p EXCEPT !.deletes = @ \o r.w.deletes,
                               !.report = @ \o r.w.report,
                               !.faults = @ + FaultsIn(r.w.deletes, fault)]
            IN /\ live' = r.w.live
               /\ objectCaches' = r.w.cache
               /\ pass' = [pass EXCEPT ![h] =
                     IF ~IsNil(r.err)
                     THEN [q EXCEPT !.pc = "done", !.status = "ERROR",
                                    !.result = WrapErr("failed to prune resources:", r.err)]
                     ELSE [q EXCEPT !.idx = @ + 1]]
    /\ UNCHANGED << apiDown, hookVars, apply >>

\* The return of DeleteControlPlaneByRevision after its loop.
ReturnDelete(h) ==
    LET p == pass[h] IN
    /\ p.pc = "delete"
    /\ p.idx > Len(p.objectsList)
    /\ pass' = [pass EXCEPT ![h] = [p EXCEPT !.pc = "done", !.status = "HEALTHY"]]
    /\ UNCHANGED << live, apiDown, objectCaches, hookVars, apply >>

\* ------------------------------------------------- the hook dispatcher

\* The pod lists of the modelled clusters: no init-crd pod, one, one before
\* and one after another pod, one in another namespace only.
PodLists ==
    LET istiod == [ns |-> istioNamespace, name |-> << "istiod-", "5d9f7c" >>]
        initCrd == [ns |-> istioNamespace,
                    name |-> << "istio-init-crd", "-11-", "x7k2p" >>]
        initCrdCopy == [ns |-> istioNamespace,
                        name |-> << "my-", "istio-init-crd", "-copy" >>]
        initCrdElsewhere == [ns |-> "legacy",
                             name |-> << "istio-init-crd", "-10-", "q8w4z" >>]
    IN { << >>, << istiod >>, << istiod, initCrd >>,
         << initCrdCopy, istiod, initCrd >>, << initCrdElsewhere, istiod >> }

\* The spec of a default mixer resource, and a customized one.
DefaultSpecOf(name) == ("match" :> "context.protocol == http") @@ ("actions" :> name)

CustomSpecOf(name) == ("match" :> "request.host == shop") @@ ("actions" :> name)

\* A mixer custom resource of the cluster.
CR(kind, name, fields) ==
    [kind |-> kind, name |-> name, ns |-> istioNamespace,
     spec |-> [isMap |-> TRUE, fields |-> fields]]

\* The mixer resources of the modelled clusters: none, the defaults, one
\* customized, two customized, one whose spec is no map, the defaults with a
\* rule the catalogue does not list.
CRLists ==
    LET promhttp == CR("rule", "promhttp", DefaultSpecOf("promhttp"))
        prometheus == CR("handler", "prometheus", DefaultSpecOf("prometheus"))
        requestsize == CR("instance", "requestsize", DefaultSpecOf("requestsize"))
        promhttpCustom == CR("rule", "promhttp", CustomSpecOf("promhttp"))
        prometheusCustom == CR("handler", "prometheus", CustomSpecOf("prometheus"))
        promhttpNoSpec == [promhttp EXCEPT !.spec = [isMap |-> FALSE, fields |-> << >>]]
        tcpkubeattrgenrulerule ==
            CR("rule", "tcpkubeattrgenrulerule", DefaultSpecOf("tcpkubeattrgenrulerule"))
    IN { << >>,
         << promhttp, tcpkubeattrgenrulerule, prometheus >>,
         << promhttp, prometheus, requestsize >>,
         << promhttpCustom, prometheus >>,
         << promhttpCustom, prometheusCustom, requestsize >>,
         << promhttpNoSpec, prometheus >> }

Clusters ==
    { [pods |-> pods, podsErr |-> podsErr, crs |-> crs, getErr |-> getErr] :
        pods \in PodLists, podsErr \in BOOLEAN, crs \in CRLists,
        getErr \in { {}, {"rules"} } }

NoCluster == [pods |-> << >>, podsErr |-> FALSE, crs |-> << >>, getErr |-> {}]

\* The default telemetry manifest: the default object of every catalogued
\* kind and name under the key name:kind.
DefaultObject(kind, name) == [kind |-> kind, name |-> name, spec |-> DefaultSpecOf(name)]

NoDefaults == [key \in {} |-> DefaultObject("", "")]

DefaultsByNameKind ==
    LET entries == Range(CatalogueIn(<< "instance", "rule", "handler" >>))
    IN [key \in { << e.name, ":", e.kind >> : e \in entries } |->
            DefaultObject(key[3], key[1])]

\* The same defaults under the key kind:name.
DefaultsByKindName ==
    [key \in { << k[3], ":", k[1] >> : k \in DOMAIN DefaultsByNameKind } |->
        DefaultsByNameKind[<< key[3], ":", key[1] >>]]

\* "1.2.0", "1.3", "1.4.0", "1.5.0".
GoodVersions ==
    { << "1", "2", "0" >>, << "1", "3" >>, << "1", "4", "0" >>, << "1", "5", "0" >> }

\* Strings that are no version: the empty string and a tag.
BadVersions == { << >>, << "latest" >> }

HookParams ==
    { [SourceVer |-> s, TargetVer |-> t, DefaultTelemetryManifest |-> d,
       RootNamespace |-> istioNamespace] :
        s \in GoodVersions \cup BadVersions, t \in GoodVersions \cup BadVersions,
        d \in { NoDefaults, DefaultsByNameKind } }

\* Mapping lists runUpgradeHooks is called with besides the two tables: the
\* pre-upgrade mapping followed by one for ">=1.4" to ">=1.5, <1.6"; and two
\* mappings with a constraint that does not parse ("=>1.3", ">=one.3")
\* followed by the pre-upgrade mapping.
HookLists ==
    { << preUpgradeHooks[1],
         [sourceVersionConstraint |-> << [op |-> ">=", ver |-> << "1", "4" >>] >>,
          targetVersionConstraint |-> << [op |-> ">=", ver |-> << "1", "5" >>],
                                         [op |-> "<", ver |-> << "1", "6" >>] >>,
          hooks |-> << "checkMixerTelemetry", "checkInitCrdJobs" >>] >>,
      << [sourceVersionConstraint |-> << [op |-> "=>", ver |-> << "1", "3" >>] >>,
          targetVersionConstraint |-> GE13,
          hooks |-> << "checkInitCrdJobs" >>],
         [sourceVersionConstraint |-> GE13,
          targetVersionConstraint |-> << [op |-> ">=", ver |-> << "one", "3" >>] >>,
          hooks |-> << "checkInitCrdJobs" >>],
         preUpgradeHooks[1] >> }

\* The call of runUpgradeHooks in progress: its arguments, its position (the
\* mapping i, the hook j), errs, and what it has evaluated and invoked so far.
IdleRun ==
    [pc |-> "idle", hml |-> << >>,
     hc |-> [SourceVer |-> << >>, TargetVer |-> << >>,
             DefaultTelemetryManifest |-> NoDefaults, RootNamespace |-> ""],
     dryRun |-> FALSE,
     i |-> 1, j |-> 1, errs |-> << >>, evaluated |-> << >>, invoked |-> << >>,
     result |-> << >>]

\* runUpgradeHooks up to its loop, and the same without the two version checks.
\* A behaviour holds one upgrade attempt: the cluster the hooks read does not
\* change, and a call keeps nothing of an earlier one.
StartUpgradeHooksUnchecked(hml, hc, dryRun) ==
    [IdleRun EXCEPT !.hml = hml, !.hc = hc, !.dryRun = dryRun, !.pc = "mapping"]

StartUpgradeHooks(hml, hc, dryRun) ==
    LET r == [IdleRun EXCEPT !.hml = hml, !.hc = hc, !.dryRun = dryRun]
        s == NewVersion(hc.SourceVer)
        t == NewVersion(hc.TargetVer)
    IN IF ~IsNil(s.err) THEN [r EXCEPT !.pc = "done", !.result = NewErrs(s.err)]
       ELSE IF ~IsNil(t.err) THEN [r EXCEPT !.pc = "done", !.result = NewErrs(t.err)]
       ELSE [r EXCEPT !.pc = "mapping"]

RunPreUpgradeHooks ==
    /\ hookRun.pc = "idle"
    /\ \E hc \in HookParams, dryRun \in BOOLEAN :
          hookRun' = StartUpgradeHooks(preUpgradeHooks, hc, dryRun)
    /\ UNCHANGED << pruneVars, kube, apply >>

RunPostUpgradeHooks ==
    /\ hookRun.pc = "idle"
    /\ \E hc \in HookParams, dryRun \in BOOLEAN :
          hookRun' = StartUpgradeHooks(postUpgradeHooks, hc, dryRun)
    /\ UNCHANGED << pruneVars, kube, apply >>

CallRunUpgradeHooks ==
    /\ hookRun.pc = "idle"
    /\ \E hml \in HookLists, hc \in HookParams, dryRun \in BOOLEAN :
          hookRun' = StartUpgradeHooks(hml, hc, dryRun)
    /\ UNCHANGED << pruneVars, kube, apply >>

\* The head of one iteration of the loop over the mappings: the constraint
\* check, then skip, or enter the mapping's hooks; the same returning at the
\* first mapping whose constraint does not parse; and the same without the
\* dry-run test.
MappingStepFailFast(r) ==
    LET h == r.hml[r.i]
        m == checkHookListEntry(h, r.hc)
        q == [r EXCEPT !.evaluated =
                  Append(@, [m |-> r.i, matches |-> m.matches, err |-> m.err])]
    IN IF ~IsNil(m.err)
       THEN [q EXCEPT !.errs = AppendErr(@, m.err), !.pc = "done",
                      !.result = AppendErr(r.errs, m.err)]
       ELSE IF ~m.matches THEN [q EXCEPT !.i = @ + 1]
       ELSE IF r.dryRun THEN [q EXCEPT !.i = @ + 1]
       ELSE IF Len(h.hooks) = 0 THEN [q EXCEPT !.i = @ + 1]
       ELSE [q EXCEPT !.pc = "hooks", !.j = 1]

MappingStepIgnoringDryRun(r) ==
    LET h == r.hml[r.i]
        m == checkHookListEntry(h, r.hc)
        q == [r EXCEPT !.evaluated =
                  Append(@, [m |-> r.i, matches |-> m.matches, err |-> m.err])]
    IN IF ~IsNil(m.err) THEN [q EXCEPT !.errs = AppendErr(@, m.err), !.i = @ + 1]
       ELSE IF ~m.matches THEN [q EXCEPT !.i = @ + 1]
       ELSE IF Len(h.hooks) = 0 THEN [q EXCEPT !.i = @ + 1]
       ELSE [q EXCEPT !.pc = "hooks", !.j = 1]

MappingStep(r) ==
    LET h == r.hml[r.i]
        m == checkHookListEntry(h, r.hc)
        q == [r EXCEPT !.evaluated =
                  Append(@, [m |-> r.i, matches |-> m.matches, err |-> m.err])]
    IN IF ~IsNil(m.err) THEN [q EXCEPT !.errs = AppendErr(@, m.err), !.i = @ + 1]
       ELSE IF ~m.matches THEN [q EXCEPT !.i = @ + 1]
       ELSE IF r.dryRun THEN [q EXCEPT !.i = @ + 1]
       ELSE IF Len(h.hooks) = 0 THEN [q EXCEPT !.i = @ + 1]
       ELSE [q EXCEPT !.pc = "hooks", !.j = 1]

CheckMapping ==
    /\ hookRun.pc = "mapping"
    /\ hookRun.i <= Len(hookRun.hml)
    /\ hookRun' = MappingStep(hookRun)
    /\ UNCHANGED << pruneVars, kube, apply >>

\* One iteration of the loop over the hooks of a matched mapping, the same
\* taking the hooks of the mapping from the last to the first, and the same
\* leaving the mapping at the first hook that reports errors.
HookStepLastFirst(r, k, kindOrder) ==
    LET h == r.hml[r.i]
        hf == h.hooks[Len(h.hooks) + 1 - r.j]
        out == ApplyHook(hf, k, r.hc, kindOrder)
        q == [r EXCEPT !.errs = AppendErrs(@, out),
                       !.invoked = Append(@, [m |-> r.i, n |-> r.j, hook |-> hf,
                                              errs |-> out])]
    IN IF r.j < Len(h.hooks) THEN [q EXCEPT !.j = @ + 1]
       ELSE [q EXCEPT !.pc = "mapping", !.i = @ + 1, !.j = 1]

HookStepStopAtFailure(r, k, kindOrder) ==
    LET h == r.hml[r.i]
        hf == h.hooks[r.j]
        out == ApplyHook(hf, k, r.hc, kindOrder)
        q == [r EXCEPT !.errs = AppendErrs(@, out),
                       !.invoked = Append(@, [m |-> r.i, n |-> r.j, hook |-> hf,
                                              errs |-> out])]
    IN IF r.j < Len(h.hooks) /\ Len(out) = 0 THEN [q EXCEPT !.j = @ + 1]
       ELSE [q EXCEPT !.pc = "mapping", !.i = @ + 1, !.j = 1]

HookStep(r, k, kindOrder) ==
    LET h == r.hml[r.i]
        hf == h.hooks[r.j]
        out == ApplyHook(hf, k, r.hc, kindOrder)
        q == [r EXCEPT !.errs = AppendErrs(@, out),
                       !.invoked = Append(@, [m |-> r.i, n |-> r.j, hook |-> hf,
                                              errs |-> out])]
    IN IF r.j < Len(h.hooks) THEN [q EXCEPT !.j = @ + 1]
       ELSE [q EXCEPT !.pc = "mapping", !.i = @ + 1, !.j = 1]

RunHook ==
    /\ hookRun.pc = "hooks"
    /\ \E kindOrder \in Perms(DOMAIN CRKindNamesMap) :
          hookRun' = HookStep(hookRun, kube, kindOrder)
    /\ UNCHANGED << pruneVars, kube, apply >>

\* The return of runUpgradeHooks after the loop.
ReturnHooks ==
    /\ hookRun.pc = "mapping"
    /\ hookRun.i > Len(hookRun.hml)
    /\ hookRun' = [hookRun EXCEPT !.pc = "done", !.result = hookRun.errs]
    /\ UNCHANGED << pruneVars, kube, apply >>

\* A hook called on its own, as its tests call it: checkMixerTelemetry, and
\* its list-based variant.
DirectCall(hook, d, out) ==
    [IdleRun EXCEPT !.pc = "done",
                    !.hc = [SourceVer |-> << "1", "4", "0" >>,
                            TargetVer |-> << "1", "5", "0" >>,
                            DefaultTelemetryManifest |-> d,
                            RootNamespace |-> istioNamespace],
                    !.invoked = << [m |-> 0, n |-> 0, hook |-> hook, errs |-> out] >>,
                    !.result = out]

CallCheckMixerTelemetry ==
    /\ hookRun.pc = "idle"
    /\ \E d \in { NoDefaults, DefaultsByNameKind, DefaultsByKindName },
          kindOrder \in Perms(DOMAIN CRKindNamesMap) :
          hookRun' = DirectCall("checkMixerTelemetry", d,
                         checkMixerTelemetry(kube,
                             [DefaultTelemetryManifest |-> d], kindOrder))
    /\ UNCHANGED << pruneVars, kube, apply >>

CallCheckMixerTelemetryList ==
    /\ hookRun.pc = "idle"
    /\ \E d \in { NoDefaults, DefaultsByNameKind, DefaultsByKindName },
          kindOrder \in Perms(DOMAIN CRKindNamesMap),
          nkOrder \in Perms({ << it.kind, ":", it.name >> : it \in Range(kube.crs) }) :
          hookRun' = DirectCall("checkMixerTelemetryList", d,
                         checkMixerTelemetryList(kube,
                             [DefaultTelemetryManifest |-> d], kindOrder, nkOrder))
    /\ UNCHANGED << pruneVars, kube, apply >>

\* ------------------------------------------------------ specification

\* No kind fails to list, one does, or all do.
ApiDownChoices ==
    { {}, {DeploymentKind}, Range(ScanKinds) \cup Range(AllClusterResources) }

Init ==
    /\ live \in { s \cup {oOther} : s \in SUBSET {oHPA, oDeploy, oGateway, oClusterRole} }
    /\ apiDown \in ApiDownChoices
    /\ \E applied \in { Universe, {} } : objectCaches = CacheOf(applied)
    /\ pass = [h \in Installs |-> IdlePass]
    /\ kube = NoCluster
    /\ hookRun = IdleRun
    /\ apply = NoApply

\* The reconciler of installation i1 runs Prune and DeleteComponent passes,
\* one at a time.
Next ==
    \/ CallPrune("i1")
    \/ CallDeleteComponent("i1")
    \/ ScanStep("i1")
    \/ ReturnScan("i1")

Spec == Init /\ [][Next]_vars

\* The by-revision deletion path of the reconciler of installation i1.
InitRev ==
    /\ live \in { s \cup {oOther, oUnlabelled, oGateway} :
                    s \in SUBSET {oHPA, oDeploy, oWebhook} }
    /\ apiDown \in ApiDownChoices
    /\ objectCaches = CacheOf(Universe)
    /\ pass = [h \in Installs |-> IdlePass]
    /\ kube = NoCluster
    /\ hookRun = IdleRun
    /\ apply = NoApply

NextRev ==
    \/ CallPruneControlPlaneByRevisionWithController("i1")
    \/ CallGetPrunedResourcesByRevision("i1")
    \/ CallDeleteControlPlaneByRevision("i1")
    \/ CollectStep("i1")
    \/ ReturnCollect("i1")
    \/ DeleteListStep("i1")
    \/ ReturnDelete("i1")

SpecRev == InitRev /\ [][NextRev]_vars

\* Every deletion path of the reconciler of installation i1 on a cluster that
\* holds a CustomResourceDefinition the installation labelled.
InitCRD ==
    /\ live = {oCRD, oDeploy, oWebhook, oOther}
    /\ apiDown = {}
    /\ objectCaches = CacheOf(Universe)
    /\ pass = [h \in Installs |-> IdlePass]
    /\ kube = NoCluster
    /\ hookRun = IdleRun
    /\ apply = NoApply

NextCRD ==
    \/ CallPrune("i1")
    \/ CallDeleteComponent("i1")
    \/ ScanStep("i1")
    \/ ReturnScan("i1")
    \/ CallPruneControlPlaneByRevisionWithController("i1")
    \/ CallGetPrunedResourcesByRevision("i1")
    \/ CallDeleteControlPlaneByRevision("i1")
    \/ CollectStep("i1")
    \/ ReturnCollect("i1")
    \/ DeleteListStep("i1")
    \/ ReturnDelete("i1")

SpecCRD == InitCRD /\ [][NextCRD]_vars

\* The scans of the reconciler of installation i1 (runForAllTypes under Prune
\* and DeleteComponent, GetPrunedResourcesByRevision) on a cluster where no
\* kind fails to list, one does, or all do.
InitList ==
    /\ live = {oHPA, oDeploy, oWebhook, oOther}
    /\ apiDown \in ApiDownChoices
    /\ objectCaches = CacheOf(Universe)
    /\ pass = [h \in Installs |-> IdlePass]
    /\ kube = NoCluster
    /\ hookRun = IdleRun
    /\ apply = NoApply

NextList ==
    \/ CallPrune("i1")
    \/ CallDeleteComponent("i1")
    \/ ScanStep("i1")
    \/ ReturnScan("i1")
    \/ CallGetPrunedResourcesByRevision("i1")
    \/ CollectStep("i1")
    \/ ReturnCollect("i1")

SpecList == InitList /\ [][NextList]_vars

\* The reconcilers of the two installations run their passes concurrently,
\* a step of one between any two steps of the other. The Deployment istiod
\* was first applied by i2 and adopted by i1 since: both hold its hash.
InitConc ==
    /\ live = {oDeploy, oOther}
    /\ apiDown = {}
    /\ objectCaches =
          [CacheOf(Universe) EXCEPT ![getCRHash("i2", PilotComponentName)] =
                                        @ \cup {Hash(oDeploy)}]
    /\ pass = [h \in Installs |-> IdlePass]
    /\ kube = NoCluster
    /\ hookRun = IdleRun
    /\ apply = NoApply

\* Each reconciler makes one call, for real, having located its
\* installation: a full purge or a DeleteComponent of Pilot.
NextConc ==
    \E h \in Installs :
        \/ /\ pass[h].pc = "idle"
           /\ CallPrune(h)
           /\ ~pass'[h].dryRun /\ pass'[h].located
           /\ pass'[h].all /\ pass'[h].manifests = NoManifests
        \/ /\ pass[h].pc = "idle"
           /\ CallDeleteComponent(h)
           /\ ~pass'[h].dryRun /\ pass'[h].located
           /\ pass'[h].componentName = PilotComponentName
        \/ ScanStep(h)
        \/ ReturnScan(h)

SpecConc == InitConc /\ [][NextConc]_vars

\* The dispatcher of the upgrade hooks against a cluster.
InitHooks ==
    /\ live = {}
    /\ apiDown = {}
    /\ objectCaches = FlushObjectCaches
    /\ pass = [h \in Installs |-> IdlePass]
    /\ kube \in Clusters
    /\ hookRun = IdleRun
    /\ apply = NoApply

NextHooks ==
    \/ RunPreUpgradeHooks
    \/ RunPostUpgradeHooks
    \/ CallRunUpgradeHooks
    \/ CheckMapping
    \/ RunHook
    \/ ReturnHooks

SpecHooks == InitHooks /\ [][NextHooks]_vars

\* The drift-detection hook, in its two variants, against a cluster.
NextDrift ==
    \/ CallCheckMixerTelemetry
    \/ CallCheckMixerTelemetryList

SpecDrift == InitHooks /\ [][NextDrift]_vars

\* runUpgradeHooks is one sequential call: once entered, its loops go on
\* while they have a next step, each hook returning. The clusters are those
\* that answer every read, with no pod or with two.
InitHooksFair ==
    /\ InitHooks
    /\ ~kube.podsErr /\ kube.getErr = {} /\ Len(kube.pods) \in {0, 2}

SpecHooksFair ==
    /\ InitHooksFair /\ [][NextHooks]_vars
    /\ WF_vars(CheckMapping) /\ WF_vars(RunHook) /\ WF_vars(ReturnHooks)

\* genApplyManifests, called once: one of the calls it makes before its
\* loops fails, or none does; the rendered manifests are those of any of two
\* components; the deprecated names are none, one or both; the spec enables
\* any of the components; ApplyAll answers for every component it was handed.
CallGenApplyManifests ==
    /\ apply.pc = "idle"
    /\ \E failing \in {"", "tree", "client", "generate", "apply"},
          rendered \in SUBSET {PilotComponentName, IngressComponentName},
          DeprecatedNames \in { << >>, << IngressComponentName >>,
                                << IngressComponentName, PilotComponentName >> },
          enabledInSpec \in SUBSET {PilotComponentName, IngressComponentName} :
          \E out \in [rendered \cup Range(DeprecatedNames) -> ApplyOutputs] :
              LET failure(call) ==
                      IF failing = call
                      THEN [reason |-> "Failed", msg |-> << call, "failed" >>]
                      ELSE NilErr
                  in == [treeErr |-> failure("tree"), clientErr |-> failure("client"),
                         genErr |-> failure("generate"), applyErr |-> failure("apply"),
                         manifests |-> [cn \in rendered |-> << << "yaml" >> >>],
                         DeprecatedNames |-> DeprecatedNames,
                         enabledInSpec |-> enabledInSpec, out |-> out]
              IN apply' = [pc |-> "done", in |-> in, res |-> genApplyManifests(in)]
    /\ UNCHANGED << pruneVars, hookVars >>

InitApply ==
    /\ live = {}
    /\ apiDown = {}
    /\ objectCaches = FlushObjectCaches
    /\ pass = [h \in Installs |-> IdlePass]
    /\ kube = NoCluster
    /\ hookRun = IdleRun
    /\ apply = NoApply

NextApply == CallGenApplyManifests

SpecApply == InitApply /\ [][NextApply]_vars

\* ------------------------------------------------------------- claims

DeletesOf(p) == { p.deletes[i] : i \in 1..Len(p.deletes) }

DeletedObjs(p) == { d.o : d \in DeletesOf(p) }

SelectivePass(p) == p.op \in {"Prune", "DeleteComponent"} /\ ~p.all

\* The exclusion set a selective pass passes to deleteResources for component c.
ExcludedFor(p, c) ==
    IF p.op = "Prune" /\ c \in DOMAIN p.manifests
    THEN { Hash(o) : o \in p.manifests[c] }
    ELSE {}

\* C1: in selective mode no delete is ever issued for an object whose hash is
\* in the exclusion set of the component it is considered under; in Prune that
\* set holds the hashes of the component's consolidated manifest.
C1_ExcludedNeverDeleted ==
    \A h \in Installs :
        SelectivePass(pass[h]) =>
            \A d \in DeletesOf(pass[h]) :
                Hash(d.o) \notin ExcludedFor(pass[h], d.comp)

\* A selective Prune that kept a live, matching, excluded object and deleted
\* another object of the same component.
C1_Witness ==
    LET p == pass["i1"] IN
    /\ p.pc = "done" /\ p.op = "Prune" /\ ~p.all /\ ~p.dryRun
    /\ p.manifests = (PilotComponentName :> {Rendered(oDeploy)})
    /\ oDeploy \in p.live0 /\ oDeploy \in live
    /\ DeploymentKind \notin apiDown
    /\ oHPA \in DeletedObjs(p)

\* The full selector of component c of installation h: the core ownership
\* labels plus the per-component label.
FullSelector(h, c) ==
    { << operatorLabelStr, operatorReconcileStr >>, << OwningResourceName, h >> }
        \cup (IF c = "" THEN {} ELSE { << IstioComponentLabelStr, c >> })

\* C2: in selective mode an object is deleted only if every key of the
\* component's full selector is on the object with the same value (extra labels
\* of the object do not matter).
C2_DeletedOnlyIfSelectorMatches ==
    \A h \in Installs :
        SelectivePass(pass[h]) =>
            \A d \in DeletesOf(pass[h]) :
                \A kv \in FullSelector(h, d.comp) :
                    /\ kv[1] \in DOMAIN d.o.labels
                    /\ d.o.labels[kv[1]] = kv[2]

\* DeleteComponent(IngressGateways) deleted the gateway, which carries an extra
\* label, and left the listed Deployment of Pilot alone.
C2_Witness ==
    LET p == pass["i1"] IN
    /\ p.pc = "done" /\ p.op = "DeleteComponent" /\ ~p.dryRun
    /\ p.componentName = IngressComponentName
    /\ oGateway \in DeletedObjs(p)
    /\ oDeploy \in p.live0 /\ oDeploy \in live

\* The declared deletion order: NamespacedResources, then ClusterResources.
DeclaredPos(gvk) ==
    IF \E i \in 1..Len(NamespacedResources) : NamespacedResources[i] = gvk
    THEN CHOOSE i \in 1..Len(NamespacedResources) : NamespacedResources[i] = gvk
    ELSE Len(NamespacedResources)
            + (CHOOSE i \in 1..Len(ClusterResources) : ClusterResources[i] = gvk)

\* The scenario: kinds A (autoscaler) before B (Deployment) before C
\* (ClusterRole), one live object of each matching Pilot, nothing desired.
ABCScenario(p) ==
    /\ p.pc = "done" /\ ~p.dryRun /\ p.located /\ ~p.all
    /\ \/ p.op = "DeleteComponent" /\ p.componentName = PilotComponentName
       \/ p.op = "Prune" /\ p.manifests = (PilotComponentName :> {})
    /\ {oHPA, oDeploy, oClusterRole} \subseteq p.live0
    /\ apiDown = {}

\* C3: within a Prune or DeleteComponent pass the deletes are issued kind by
\* kind in the declared order; in the A, B, C scenario they are issued in the
\* order A, B, C and the three hashes are gone from the object cache.
C3_DeletesInDeclaredOrder ==
    \A h \in Installs :
        LET p == pass[h] IN
        /\ p.op \in {"Prune", "DeleteComponent"} =>
              \A i, j \in 1..Len(p.deletes) :
                  i < j => DeclaredPos(p.deletes[i].o.gvk) <= DeclaredPos(p.deletes[j].o.gvk)
        /\ ABCScenario(p) =>
              /\ [i \in 1..Len(p.deletes) |-> p.deletes[i].o] = << oHPA, oDeploy, oClusterRole >>
              /\ \A o \in {oHPA, oDeploy, oClusterRole} :
                    Hash(o) \notin objectCaches[getCRHash(h, PilotComponentName)]

\* The scenario ran with the three hashes in the cache beforehand.
C3_Witness ==
    /\ ABCScenario(pass["i1"])
    /\ Len(pass["i1"].deletes) = 3
    /\ \A o \in {oHPA, oDeploy, oClusterRole} :
          Hash(o) \in pass["i1"].cache0[getCRHash("i1", PilotComponentName)]

\* C4: after a full purge has returned the object cache is empty for every
\* owner key, whatever it held before and whatever the listings returned.
C4_FullPurgeEmptiesCache ==
    \A h \in Installs :
        LET p == pass[h] IN
        (p.pc = "done" /\ p.op = "Prune" /\ p.all /\ p.located /\ ~p.dryRun)
            => \A k \in CacheKeys : objectCaches[k] = {}

\* C5: a dry-run prune issues no delete and leaves the cluster unchanged, and
\* the objects it reports as not pruned are the objects the same call, run for
\* real on the same cluster, issues a delete for.
C5_DryRunReportsTheDeleteSet ==
    \A h \in Installs :
        LET p == pass[h] IN
        /\ (p.op \in {"Prune", "DeleteComponent"} /\ p.dryRun)
              => (Len(p.deletes) = 0 /\ live = p.live0)
        /\ (p.pc = "done" /\ p.prev.valid) => DeletedObjs(p) = p.prev.objs

\* A real selective Prune that followed its dry run: it deleted something and
\* kept a listed object.
C5_Witness ==
    LET p == pass["i1"] IN
    /\ p.pc = "done" /\ p.prev.valid /\ p.op = "Prune" /\ ~p.all
    /\ oHPA \in DeletedObjs(p)
    /\ oGateway \in p.live0 /\ oGateway \notin DeletedObjs(p)
    /\ DeploymentKind \notin apiDown

\* The objects of the cluster at the start of pass p that the pass lists and
\* that are eligible for deletion under DeleteComponent(p.componentName).
EligibleAtStart(h, p) ==
    { o \in p.live0 :
        /\ o.gvk \in Range(ScanKinds) \ apiDown
        /\ \A kv \in FullSelector(h, IF IstioComponentLabelStr \in DOMAIN o.labels
                                     THEN o.labels[IstioComponentLabelStr] ELSE "") :
              kv[1] \in DOMAIN o.labels /\ o.labels[kv[1]] = kv[2]
        /\ p.componentName \in {"", o.labels[IstioComponentLabelStr]} }

\* A delete failure that is not a not-found error.
RealFailure(d) == ~IsNil(d.err) /\ d.err.reason # "NotFound"

\* C7: a delete failure does not stop the pass: every other eligible object
\* still receives its delete attempt, and every failure other than not-found
\* appears in the returned aggregated error.
C7_FailuresDoNotStopAndAreReported ==
    \A h \in Installs :
        LET p == pass[h] IN
        (p.pc = "done" /\ p.op = "DeleteComponent" /\ p.located /\ ~p.dryRun) =>
            /\ DeletedObjs(p) = EligibleAtStart(h, p)
            /\ \A d \in DeletesOf(p) : RealFailure(d) => HasText(p.result, d.err.msg)

\* C9: a delete that fails with a not-found error adds nothing to the returned
\* error, and any other delete error is included in it.
C9_OnlyNotFoundIsDropped ==
    \A h \in Installs :
        LET p == pass[h] IN
        (p.pc = "done" /\ p.op \in {"Prune", "DeleteComponent"}) =>
            \A d \in DeletesOf(p) :
                /\ d.err.reason = "NotFound" => ~HasText(p.result, d.err.msg)
                /\ RealFailure(d) => HasText(p.result, d.err.msg)

\* C10: in selective, non-dry-run mode, once an object's delete has succeeded
\* or returned not-found, its hash is not in the object cache under the owner
\* key of the component it was deleted for.
C10_DeletedHashLeavesCache ==
    \A h \in Installs :
        SelectivePass(pass[h]) =>
            \A d \in DeletesOf(pass[h]) :
                (IsNil(d.err) \/ d.err.reason = "NotFound")
                    => Hash(d.o) \notin objectCaches[getCRHash(h, d.comp)]

\* A successful selective delete of an object whose hash was cached under its
\* component's key beforehand.
C10_Witness ==
    LET p == pass["i1"] IN
    /\ SelectivePass(p) /\ ~p.dryRun
    /\ \E d \in DeletesOf(p) :
          /\ IsNil(d.err)
          /\ d.comp # ""
          /\ Hash(d.o) \in p.cache0[getCRHash("i1", d.comp)]
          /\ Hash(d.o) \notin objectCaches[getCRHash("i1", d.comp)]

\* The selector DeleteControlPlaneByRevision deletes under without purge.
RevisionEligible(p, o) ==
    \/ p.purge
    \/ /\ IstioRev \in DOMAIN o.labels /\ o.labels[IstioRev] = p.revision
       /\ IstioComponentLabelStr \in DOMAIN o.labels
       /\ o.labels[IstioComponentLabelStr] = PilotComponentName

\* C6: delete-by-revision returns an error with ERROR status and issues no
\* list and no delete call whenever the active-proxy query fails or returns
\* proxies; lists and deletes happen only after it returned the empty set.
C6_ActiveProxiesBlockRevisionPrune ==
    \A h \in Installs :
        LET p == pass[h] IN
        p.op = "PruneControlPlaneByRevisionWithController" =>
            /\ (p.queryErr \/ p.pids # {}) =>
                  /\ p.pc = "done" /\ p.status = "ERROR" /\ ~IsNil(p.result)
                  /\ p.listCalls = 0 /\ Len(p.deletes) = 0 /\ live = p.live0
            /\ (p.listCalls > 0 \/ Len(p.deletes) > 0) => (~p.queryErr /\ p.pids = {})

\* The query returned a proxy of revision r1 while objects of r1 were live.
C6_Witness ==
    LET p == pass["i1"] IN
    /\ p.op = "PruneControlPlaneByRevisionWithController" /\ p.pc = "done"
    /\ p.pids # {} /\ p.revision = "r1" /\ ~p.dryRun
    /\ {oHPA, oDeploy} \subseteq live
    /\ apiDown = {}

\* C8: DeleteControlPlaneByRevision does not fail fast: after an error in one
\* list the objects of the remaining lists are still attempted, and the
\* returned error holds every failure.
C8_RevisionDeleteDoesNotFailFast ==
    \A h \in Installs :
        LET p == pass[h] IN
        (p.pc = "done" /\ p.op = "DeleteControlPlaneByRevision" /\ ~p.dryRun) =>
            /\ \A i \in 1..Len(p.objectsList) :
                  \A o \in Range(p.objectsList[i]) :
                      RevisionEligible(p, o) => o \in DeletedObjs(p)
            /\ \A d \in DeletesOf(p) :
                  (RealFailure(d) /\ ~ContainsNotFound(d.err))
                      => HasText(p.result, d.err.msg)

\* ------------------------------------------- claims: the hook dispatcher

InvokedOf(r) == { r.invoked[n] : n \in 1..Len(r.invoked) }

EvaluatedOf(r) == { r.evaluated[n] : n \in 1..Len(r.evaluated) }

\* A pod of the root namespace carries the marker of the old installer.
StalePodListed ==
    \E p \in Range(kube.pods) :
        p.ns = hookRun.hc.RootNamespace /\ StringsContains(p.name, "istio-init-crd")

\* The catalogued resources of the cluster whose spec differs from the spec
\* of their default.
Customized ==
    { it \in Range(kube.crs) :
        /\ it.kind \in DOMAIN CRKindNamesMap
        /\ it.name \in Range(CRKindNamesMap[it.kind])
        /\ << it.name, ":", it.kind >> \in DOMAIN hookRun.hc.DefaultTelemetryManifest
        /\ it.spec.isMap
        /\ it.spec.fields #
              hookRun.hc.DefaultTelemetryManifest[<< it.name, ":", it.kind >>].spec }

\* C11: when the source version or the target version is no parseable
\* version, runUpgradeHooks returns at once with exactly one error, having
\* evaluated no mapping and invoked no hook, dry-run or not.
C11_UnparseableVersionIsFatal ==
    (/\ hookRun.pc # "idle"
     /\ (hookRun.hc.SourceVer \in BadVersions \/ hookRun.hc.TargetVer \in BadVersions))
        => /\ hookRun.pc = "done"
           /\ Len(hookRun.result) = 1
           /\ hookRun.result[1].reason = "MalformedVersion"
           /\ hookRun.evaluated = << >>
           /\ hookRun.invoked = << >>

\* The pre-upgrade table was run for real from 1.4.0 to a target that is no
\* version, on a cluster whose hooks would both have reported.
C11_Witness ==
    /\ hookRun.pc = "done" /\ hookRun.hml = preUpgradeHooks /\ ~hookRun.dryRun
    /\ hookRun.hc.SourceVer = << "1", "4", "0" >>
    /\ hookRun.hc.TargetVer = << "latest" >>
    /\ hookRun.hc.DefaultTelemetryManifest = DefaultsByNameKind
    /\ StalePodListed /\ ~kube.podsErr
    /\ Customized # {}
    /\ Len(hookRun.result) = 1

\* The number of a version of at most three one-digit parts: 140 for "1.4.0",
\* 130 for "1.3".
VersionNumber(verStr) ==
    LET part(n) == IF n <= Len(verStr) THEN Numerals[verStr[n]] ELSE 0
    IN 100 * part(1) + 10 * part(2) + part(3)

\* A constraint string of the modelled mappings that parses.
WellFormed(constraintStr) ==
    \A n \in 1..Len(constraintStr) :
        /\ constraintStr[n].op \in {">=", "<"}
        /\ \A d \in Range(constraintStr[n].ver) : d \in DOMAIN Numerals

\* The version lies in the range the constraint string states.
Satisfies(verStr, constraintStr) ==
    \A n \in 1..Len(constraintStr) :
        IF constraintStr[n].op = ">="
        THEN VersionNumber(verStr) >= VersionNumber(constraintStr[n].ver)
        ELSE VersionNumber(verStr) < VersionNumber(constraintStr[n].ver)

\* The hooks of mapping m that were invoked, by position in its list.
HooksRunOf(r, m) == { inv.n : inv \in { x \in InvokedOf(r) : x.m = m } }

\* A returned dispatch whose two versions parse.
Dispatched(r) ==
    /\ r.pc = "done"
    /\ r.hc.SourceVer \in GoodVersions /\ r.hc.TargetVer \in GoodVersions

\* C12: the hooks of a mapping are run if and only if the source version
\* satisfies its source constraint, the target version its target constraint
\* and dry-run is off; a mapping that does not match is skipped and adds no
\* error. The pre-upgrade mapping (>=1.3, >=1.3) runs from 1.4.0 to 1.5.0 and
\* is skipped from 1.2.0 to any target.
C12_HooksRunIffBothConstraintsHold ==
    LET r == hookRun IN
    Dispatched(r) =>
        /\ \A m \in 1..Len(r.hml) :
              LET h == r.hml[m]
                  match == /\ Satisfies(r.hc.SourceVer, h.sourceVersionConstraint)
                           /\ Satisfies(r.hc.TargetVer, h.targetVersionConstraint)
              IN (WellFormed(h.sourceVersionConstraint)
                    /\ WellFormed(h.targetVersionConstraint)) =>
                     /\ (HooksRunOf(r, m) = 1..Len(h.hooks)) <=> (match /\ ~r.dryRun)
                     /\ ~match =>
                          /\ HooksRunOf(r, m) = {}
                          /\ \A e \in EvaluatedOf(r) : e.m = m => IsNil(e.err)
                          /\ Len(r.hml) = 1 => r.result = << >>
        /\ (r.hml = preUpgradeHooks /\ ~r.dryRun) =>
              /\ (r.hc.SourceVer = << "1", "4", "0" >> /\ r.hc.TargetVer = << "1", "5", "0" >>)
                    => [n \in 1..Len(r.invoked) |-> r.invoked[n].hook]
                          = << "checkInitCrdJobs", "checkMixerTelemetry" >>
              /\ r.hc.SourceVer = << "1", "2", "0" >>
                    => r.invoked = << >> /\ r.result = << >>

\* From 1.3 to 1.5.0 the pre-upgrade mapping matched and ran its two hooks,
\* and the mapping for sources from 1.4 on was skipped.
C12_Witness ==
    LET r == hookRun IN
    /\ Dispatched(r) /\ ~r.dryRun /\ Len(r.hml) = 2
    /\ r.hc.SourceVer = << "1", "3" >> /\ r.hc.TargetVer = << "1", "5", "0" >>
    /\ HooksRunOf(r, 1) = {1, 2} /\ HooksRunOf(r, 2) = {}
    /\ Len(r.evaluated) = 2

\* How many entries of the returned list are the error e, and how many
\* failures produced it: hook invocations that returned it and mappings whose
\* constraint check did.
EntriesOf(r, e) == Cardinality({ n \in 1..Len(r.result) : r.result[n] = e })

FailuresOf(r, e) ==
    Cardinality({ n \in 1..Len(r.invoked) : e \in Range(r.invoked[n].errs) })
        + Cardinality({ n \in 1..Len(r.evaluated) : r.evaluated[n].err = e })

\* C13: a failing hook stops neither the later hooks of its mapping nor the
\* later matching mappings: every hook of every matched mapping is invoked
\* once, and the returned list holds exactly one entry per failure.
C13_FailingHookStopsNothing ==
    LET r == hookRun IN
    (Dispatched(r) /\ ~r.dryRun) =>
        /\ \A e \in EvaluatedOf(r) :
              e.matches =>
                 /\ HooksRunOf(r, e.m) = 1..Len(r.hml[e.m].hooks)
                 /\ Cardinality({ n \in 1..Len(r.invoked) : r.invoked[n].m = e.m })
                       = Len(r.hml[e.m].hooks)
        /\ \A inv \in InvokedOf(r) : \A e \in Range(inv.errs) :
              EntriesOf(r, e) = FailuresOf(r, e)
        /\ \A n \in 1..Len(r.result) :
              FailuresOf(r, r.result[n]) = EntriesOf(r, r.result[n])

\* The first hook of the first of two matching mappings failed; the three
\* hooks after it were invoked and the last failed too.
C13_Witness ==
    LET r == hookRun IN
    /\ Dispatched(r) /\ ~r.dryRun /\ Len(r.hml) = 2
    /\ Len(r.invoked) = 4
    /\ r.invoked[1].m = 1 /\ r.invoked[1].errs # << >>
    /\ r.invoked[4].m = 2 /\ r.invoked[4].errs # << >>
    /\ Len(r.result) >= 2

\* C14: with dry-run set runUpgradeHooks invokes no hook of any mapping,
\* matched or not.
C14_DryRunInvokesNoHook ==
    hookRun.dryRun => hookRun.invoked = << >>

\* A dry-run dispatch returned after a mapping matched, on a cluster where
\* the first hook of that mapping would have reported a stale pod.
C14_Witness ==
    LET r == hookRun IN
    /\ Dispatched(r) /\ r.dryRun
    /\ \E e \in EvaluatedOf(r) :
          e.matches /\ r.hml[e.m].hooks[1] = "checkInitCrdJobs"
    /\ StalePodListed /\ ~kube.podsErr
    /\ r.result = << >>

\* C15: checkMixerTelemetry returns no error when every catalogued resource
\* present in the cluster has the spec of its default, and exactly one error
\* describing a diff when some differ, however many do (the reads of the
\* cluster succeeding and every spec being a map).
C15_DriftHookReportsOnlyDifferences ==
    \A inv \in InvokedOf(hookRun) :
        (/\ inv.hook = "checkMixerTelemetry"
         /\ kube.getErr = {}
         /\ \A it \in Range(kube.crs) : it.spec.isMap) =>
            /\ Customized = {} => inv.errs = << >>
            /\ Customized # {} =>
                  /\ Len(inv.errs) = 1
                  /\ inv.errs[1].reason = "Customized"

\* C16: checkInitCrdJobs returns an error if and only if listing the pods of
\* the root namespace fails or a listed pod's name contains istio-init-crd,
\* and never more than one error.
C16_InitCrdHookReportsStalePods ==
    \A inv \in InvokedOf(hookRun) :
        inv.hook = "checkInitCrdJobs" =>
            /\ (inv.errs # << >>) <=> (kube.podsErr \/ StalePodListed)
            /\ Len(inv.errs) <= 1

\* The hook reported a stale pod that was not the first pod of the listing.
C16_Witness ==
    /\ ~kube.podsErr
    /\ Len(kube.pods) >= 2
    /\ ~StringsContains(kube.pods[1].name, "istio-init-crd")
    /\ \E inv \in InvokedOf(hookRun) :
          /\ inv.hook = "checkInitCrdJobs"
          /\ Len(inv.errs) = 1 /\ inv.errs[1].reason = "InitCrdPods"

\* ---------------------------------- claims: CRDs, hashes and the cache

\* A pass of one of the automatic pruning paths.
AutomaticPass(p) ==
    \/ p.op \in {"Prune", "DeleteComponent"}
    \/ /\ p.op \in {"GetPrunedResourcesByRevision",
                     "PruneControlPlaneByRevisionWithController"}
       /\ ~p.purge

\* C17: Prune, DeleteComponent and GetPrunedResourcesByRevision without purge
\* never list the CustomResourceDefinition kind and never collect or delete a
\* CRD object; the kind is listed only by a collection with purge set.
C17_NoCRDInAutomaticPruning ==
    \A h \in Installs :
        LET p == pass[h] IN
        /\ AutomaticPass(p) =>
              /\ CRDKind \notin p.listed
              /\ \A d \in DeletesOf(p) : d.o.gvk # CRDKind
              /\ \A n \in 1..Len(p.report) : p.report[n].o.gvk # CRDKind
              /\ \A n \in 1..Len(p.objectsList) :
                    \A o \in Range(p.objectsList[n]) : o.gvk # CRDKind
              /\ \A o \in p.live0 : o.gvk = CRDKind => o \in live
        /\ CRDKind \in p.listed =>
              p.op = "GetPrunedResourcesByRevision" /\ p.purge

\* The controller pruned revision r1 for real and deleted its Deployment,
\* while the CRD carrying the same revision and component labels stayed.
C17_Witness ==
    LET p == pass["i1"] IN
    /\ p.op = "PruneControlPlaneByRevisionWithController" /\ p.pc = "done"
    /\ p.status = "HEALTHY" /\ ~p.dryRun /\ p.revision = "r1"
    /\ oDeploy \in DeletedObjs(p) /\ oDeploy \notin live
    /\ oCRD \in p.live0 /\ oCRD \in live
    /\ Matches((IstioRev :> "r1") @@ (IstioComponentLabelStr :> PilotComponentName),
               oCRD.labels)

\* The objects a pass of h met: the live ones, at its start and now, and the
\* rendered ones of its manifests.
ObjectsMet(h) ==
    live \cup pass[h].live0
        \cup UNION { pass[h].manifests[c] : c \in DOMAIN pass[h].manifests }

SameIdentity(a, b) ==
    /\ a.gvk.Group = b.gvk.Group /\ a.gvk.Version = b.gvk.Version
    /\ a.gvk.Kind = b.gvk.Kind /\ a.ns = b.ns /\ a.name = b.name

RemovedUnder(h, p, k) ==
    { Hash(d.o) : d \in { x \in DeletesOf(p) : getCRHash(h, x.comp) = k } }

EntriesOfOthers(caches, h) ==
    [k \in { x \in CacheKeys : x[1] # h } |-> caches[k]]

\* C20 as stated: no step of a prune, delete or purge call made for one
\* installation changes the cache entries under another installation's
\* owner key, under any interleaving of the passes.
C20_PassesNeverTouchOtherOwners ==
    [][\A h \in Installs :
          pass'[h] # pass[h]
              => EntriesOfOthers(objectCaches', h) = EntriesOfOthers(objectCaches, h)]_vars

\* C20 amended: no step of a selective call (Prune without purge,
\* DeleteComponent) made for one installation changes the cache entries
\* under another installation's owner key, under any interleaving.
C20_SelectivePassesNeverTouchOtherOwners ==
    [][\A h \in Installs :
          (pass'[h] # pass[h] /\ ~pass[h].all)
              => EntriesOfOthers(objectCaches', h) = EntriesOfOthers(objectCaches, h)]_vars

\* While the pass of i2 was scanning, a selective pass of i1 deleted the
\* Deployment istiod and removed its hash under its own key; i2 still holds
\* the hash.
C20_Witness ==
    /\ pass["i2"].pc = "scan" /\ pass["i2"].idx > 1 /\ ~pass["i2"].all
    /\ SelectivePass(pass["i1"]) /\ pass["i1"].pc = "scan"
    /\ oDeploy \in DeletedObjs(pass["i1"])
    /\ Hash(oDeploy) \in pass["i1"].cache0[getCRHash("i1", PilotComponentName)]
    /\ Hash(oDeploy) \notin objectCaches[getCRHash("i1", PilotComponentName)]
    /\ Hash(oDeploy) \in objectCaches[getCRHash("i2", PilotComponentName)]

\* ------------------------------- claims: the cache and the failure paths

\* C21: in selective, non-dry-run mode an object whose delete failed with an
\* error other than not-found keeps its hash in the object cache under the
\* owner key of the component it was considered for.
C21_FailedDeleteKeepsHash ==
    \A h \in Installs :
        LET p == pass[h] IN
        (SelectivePass(p) /\ ~p.dryRun) =>
            \A d \in DeletesOf(p) :
                (RealFailure(d) /\ Hash(d.o) \in p.cache0[getCRHash(h, d.comp)])
                    => Hash(d.o) \in objectCaches[getCRHash(h, d.comp)]

\* C22: a Prune call in dry-run mode leaves the object cache as it found it,
\* in selective mode and in full-purge mode alike.
C22_DryRunLeavesCache ==
    \A h \in Installs :
        LET p == pass[h] IN
        (p.op = "Prune" /\ p.dryRun /\ p.pc \in {"scan", "done"})
            => objectCaches = p.cache0

\* ------------------------------------- claims: the order of the dispatch

\* The names of the hooks invoked so far, in the order of their invocation.
HookNames(r) == [n \in 1..Len(r.invoked) |-> r.invoked[n].hook]

\* C23: runUpgradeHooks evaluates the mappings in their declared order and
\* invokes the hooks of a matched mapping in list order, each once; under the
\* pre-upgrade table checkInitCrdJobs is invoked before checkMixerTelemetry.
C23_DeclaredOrderIsKept ==
    LET r == hookRun IN
    /\ \A n \in 1..Len(r.evaluated) : r.evaluated[n].m = n
    /\ \A x \in 1..Len(r.invoked) :
          LET inv == r.invoked[x] IN
          /\ inv.hook = r.hml[inv.m].hooks[inv.n]
          /\ IF x = 1 THEN inv.n = 1
             ELSE LET before == r.invoked[x - 1] IN
                  \/ inv.m = before.m /\ inv.n = before.n + 1
                  \/ /\ inv.m > before.m /\ inv.n = 1
                     /\ before.n = Len(r.hml[before.m].hooks)
    /\ r.hml = preUpgradeHooks =>
          \A x \in 1..Len(r.invoked) :
              r.invoked[x].hook = "checkMixerTelemetry" =>
                  \E y \in 1..(x - 1) : r.invoked[y].hook = "checkInitCrdJobs"
    /\ (r.pc = "done" /\ r.hml = preUpgradeHooks) =>
          HookNames(r) \in { << >>, << "checkInitCrdJobs", "checkMixerTelemetry" >> }

\* A dispatch over two mappings that both matched returned: the hooks of the
\* first ran in its order, then those of the second in its own.
C23_Witness ==
    LET r == hookRun IN
    /\ r.pc = "done" /\ Len(r.hml) = 2 /\ Len(r.evaluated) = 2
    /\ HookNames(r) = << "checkInitCrdJobs", "checkMixerTelemetry",
                         "checkMixerTelemetry", "checkInitCrdJobs" >>

\* What a dispatch has done of mapping m: "Run" when hooks of it were
\* invoked, "Skip" otherwise.
OutcomeOf(r, m) == IF HooksRunOf(r, m) # {} THEN "Run" ELSE "Skip"

\* The dispatch is inside its loop only after both versions parsed; it checks
\* the constraints of mapping n at its n-th check; returned, it has checked
\* every mapping once, run it or skipped it, and hands back the errors
\* accumulated.
DispatchShape(r) ==
    /\ r.pc \in {"mapping", "hooks"} =>
          r.hc.SourceVer \in GoodVersions /\ r.hc.TargetVer \in GoodVersions
    /\ \A n \in 1..Len(r.evaluated) : r.evaluated[n].m = n
    /\ r.pc = "done" =>
          IF Dispatched(r)
          THEN /\ Len(r.evaluated) = Len(r.hml)
               /\ r.result = r.errs
               /\ \A m \in 1..Len(r.hml) :
                     OutcomeOf(r, m) = "Run" <=>
                        /\ r.evaluated[m].matches /\ ~r.dryRun
                        /\ Len(r.hml[m].hooks) > 0
          ELSE r.evaluated = << >> /\ r.invoked = << >>

\* C24: every hook dispatch terminates, each hook returning: after the
\* validation of the versions it passes through the constraint check once per
\* mapping, skipping or running each, and ends returned with the accumulated
\* errors, where it stays.
C24_DispatchTerminates ==
    /\ [] DispatchShape(hookRun)
    /\ [][hookRun.pc = "done" => hookRun'.pc = "done"]_vars
    /\ (hookRun.pc \in {"mapping", "hooks"}) ~> (hookRun.pc = "done")

\* A dispatch from 1.3 to 1.4.0 returned: it ran the first of its two
\* mappings and skipped the second.
C24_Witness ==
    LET r == hookRun IN
    /\ Dispatched(r) /\ ~r.dryRun /\ Len(r.hml) = 2
    /\ r.hc.SourceVer = << "1", "3" >> /\ r.hc.TargetVer = << "1", "4", "0" >>
    /\ OutcomeOf(r, 1) = "Run" /\ OutcomeOf(r, 2) = "Skip"
    /\ r.result = r.errs

\* ------------------------------------------- claims: the drift-detection hook

\* The resources of the cluster that error e names by kind and name.
NamedBy(e) ==
    { it \in Range(kube.crs) :
        /\ \E n \in 1..Len(e.msg) : e.msg[n] = it.kind
        /\ \E n \in 1..Len(e.msg) : e.msg[n] = it.name }

\* The resources of the cluster the drift check has to object to under the
\* defaults d keyed by key: catalogued, with a default, and their spec no map
\* or another than the default's.
Objectionable(d, key(_)) ==
    { it \in Range(kube.crs) :
        /\ it.kind \in DOMAIN CRKindNamesMap
        /\ it.name \in Range(CRKindNamesMap[it.kind])
        /\ key(it) \in DOMAIN d
        /\ (~it.spec.isMap \/ it.spec.fields # d[key(it)].spec) }

ByNameKind(it) == << it.name, ":", it.kind >>

ByKindName(it) == << it.kind, ":", it.name >>

\* C25: in the drift-detection hook a catalogued default that the cluster
\* does not hold produces no error and does not stop the hook: with nothing
\* in the cluster the hook returns no error, an error it returns names a
\* resource the cluster holds, and a resource to object to is reported
\* whatever catalogued entries are missing before it (the reads succeeding).
C25_MissingDefaultIsNoError ==
    \A inv \in InvokedOf(hookRun) :
        LET d == hookRun.hc.DefaultTelemetryManifest IN
        (inv.hook \in {"checkMixerTelemetry", "checkMixerTelemetryList"}
            /\ kube.getErr = {}) =>
            /\ kube.crs = << >> => inv.errs = << >>
            /\ \A e \in Range(inv.errs) :
                  e.reason \in {"Customized", "NoSpec"} => NamedBy(e) # {}
            /\ inv.hook = "checkMixerTelemetry" =>
                  (Objectionable(d, ByNameKind) # {} => inv.errs # << >>)
            /\ inv.hook = "checkMixerTelemetryList" =>
                  (Objectionable(d, ByKindName) # {} => inv.errs # << >>)

\* The hook was called with its defaults on a cluster that holds a
\* customized promhttp rule and lacks most of the catalogue, attributes and
\* kubernetesenv among them: it reported the rule.
C25_Witness ==
    /\ kube.getErr = {}
    /\ \E it \in Range(kube.crs) : it.name = "promhttp" /\ it.spec.isMap
    /\ ~\E it \in Range(kube.crs) : it.name \in {"attributes", "kubernetesenv"}
    /\ \E inv \in InvokedOf(hookRun) :
          /\ \/ /\ inv.hook = "checkMixerTelemetry"
                /\ Objectionable(hookRun.hc.DefaultTelemetryManifest, ByNameKind) # {}
             \/ /\ inv.hook = "checkMixerTelemetryList"
                /\ Objectionable(hookRun.hc.DefaultTelemetryManifest, ByKindName) # {}
          /\ Len(inv.errs) = 1 /\ inv.errs[1].reason = "Customized"
          /\ \E it \in NamedBy(inv.errs[1]) : it.name = "promhttp"

\* ------------------------------------------- claims: the failure paths

\* A delete error that deleteResources adds to what it returns.
Appended(d) == ~IsNil(d.err) /\ ~ContainsNotFound(d.err)

\* The objects that carry the revision label of the scan p with its value and
\* a component label, of the kinds in gvks.
RevisionObjects(p, gvks) ==
    { o \in live :
        /\ o.gvk \in gvks
        /\ IstioRev \in DOMAIN o.labels /\ o.labels[IstioRev] = p.revision
        /\ IstioComponentLabelStr \in DOMAIN o.labels }

\* C26: a kind whose list call fails, in runForAllTypes or in
\* GetPrunedResourcesByRevision, counts as holding no object: no delete is
\* issued for an object of it, the call goes on to list and process every
\* later kind, and the returned error holds the delete failures only.
C26_ListFailureSkipsTheKind ==
    \A h \in Installs :
        LET p == pass[h] IN
        /\ (p.op \in {"Prune", "DeleteComponent"} /\ p.located) =>
              /\ \A d \in DeletesOf(p) : d.o.gvk \notin apiDown
              /\ p.pc = "done" =>
                    /\ p.listed = Range(ScanKinds)
                    /\ p.listCalls = Len(ScanKinds)
                    /\ IsNil(p.result) <=> ~\E d \in DeletesOf(p) : Appended(d)
                    /\ (p.op = "DeleteComponent" /\ ~p.dryRun) =>
                          DeletedObjs(p) = EligibleAtStart(h, p)
        /\ (p.op = "GetPrunedResourcesByRevision" /\ p.pc = "done") =>
              LET gvkList == RevisionKinds(p.purge)
                  served == { i \in 1..Len(gvkList) : gvkList[i] \notin apiDown }
              IN /\ p.listed = Range(gvkList)
                 /\ p.listCalls = Len(gvkList)
                 /\ Len(p.objectsList) = Cardinality(served)
                 /\ Range(p.resources) =
                       { Hash(o) : o \in RevisionObjects(p, Range(gvkList) \ apiDown) }
                 /\ IsNil(p.result)

\* With the list of Deployments failing, DeleteComponent("Pilot") returned no
\* error: it left the Deployment istiod alone and deleted the autoscaler
\* (listed before) and the webhook configuration (listed after).
C26_Witness ==
    LET p == pass["i1"] IN
    /\ apiDown = {DeploymentKind}
    /\ p.op = "DeleteComponent" /\ p.pc = "done" /\ ~p.dryRun
    /\ oDeploy \in live /\ oDeploy \notin DeletedObjs(p)
    /\ {oHPA, oWebhook} \subseteq DeletedObjs(p)
    /\ IsNil(p.result)

\* C27: when the core ownership labels of the installation cannot be
\* obtained, Prune and DeleteComponent return that error at once: no list
\* call, no delete call, and the cluster and the object cache as they were.
C27_NoOwnerLabelsReturnsAtOnce ==
    \A h \in Installs :
        LET p == pass[h] IN
        (p.op \in {"Prune", "DeleteComponent"} /\ ~p.located) =>
            /\ p.pc = "done"
            /\ p.result.reason = "NoOwner"
            /\ p.listCalls = 0 /\ p.listed = {}
            /\ p.deletes = << >> /\ p.report = << >>
            /\ live = p.live0 /\ objectCaches = p.cache0

\* A full purge, not a dry run, by a reconciler that cannot locate its
\* installation, on a cluster that holds its Deployment and a cache that
\* holds the Deployment's hash.
C27_Witness ==
    LET p == pass["i1"] IN
    /\ p.op = "Prune" /\ p.all /\ ~p.dryRun /\ ~p.located
    /\ p.pc = "done" /\ ~IsNil(p.result)
    /\ oDeploy \in live
    /\ Hash(oDeploy) \in objectCaches[getCRHash("i1", PilotComponentName)]

\* ------------------------------------------- claims: what a call may delete

\* C28: DeleteControlPlaneByRevision without purge deletes, from the lists it
\* is given, only objects labelled with the requested revision and the pilot
\* component; an object of another revision, without revision label or of
\* another component is never deleted.
C28_RevisionDeleteKeepsOtherRevisions ==
    \A h \in Installs :
        LET p == pass[h] IN
        (p.op \in {"DeleteControlPlaneByRevision",
                   "PruneControlPlaneByRevisionWithController"} /\ ~p.purge) =>
            /\ \A d \in DeletesOf(p) :
                  /\ IstioRev \in DOMAIN d.o.labels
                  /\ d.o.labels[IstioRev] = p.revision
                  /\ IstioComponentLabelStr \in DOMAIN d.o.labels
                  /\ d.o.labels[IstioComponentLabelStr] = PilotComponentName
            /\ \A o \in p.live0 :
                  (\/ IstioRev \notin DOMAIN o.labels
                   \/ o.labels[IstioRev] # p.revision
                   \/ IstioComponentLabelStr \notin DOMAIN o.labels
                   \/ o.labels[IstioComponentLabelStr] # PilotComponentName)
                      => o \in live

\* DeleteControlPlaneByRevision("r1", lists, false) went through lists that
\* hold the pilot Deployment of r1, the ingress gateway of r1, the pilot of r2
\* and an unlabelled Deployment: it deleted the first and kept the others.
C28_Witness ==
    LET p == pass["i1"] IN
    /\ p.op = "DeleteControlPlaneByRevision" /\ ~p.purge /\ ~p.dryRun
    /\ p.revision = "r1" /\ p.pc = "done"
    /\ \E i \in 1..Len(p.objectsList) :
          {oDeploy, oGateway, oOther, oUnlabelled} \subseteq Range(p.objectsList[i])
    /\ oDeploy \in p.live0 /\ oDeploy \notin live
    /\ {oGateway, oOther, oUnlabelled} \subseteq live
    /\ DeletedObjs(p) \cap {oGateway, oOther, oUnlabelled} = {}

\* The component an object is labelled with ("" when it has no such label).
ComponentOf(o) ==
    IF IstioComponentLabelStr \in DOMAIN o.labels
    THEN o.labels[IstioComponentLabelStr] ELSE ""

\* C29: DeleteComponent(c) for a non-empty name c attempts to delete every
\* listed object that matches c's selector, excluding none, and leaves every
\* object of another component untouched: no delete is issued for it and the
\* cache entries of the other components are unchanged.
C29_DeleteComponentTouchesOnlyItsComponent ==
    \A h \in Installs :
        LET p == pass[h] IN
        (p.op = "DeleteComponent" /\ p.componentName # "" /\ p.located) =>
            /\ \A d \in DeletesOf(p) : ComponentOf(d.o) = p.componentName
            /\ \A o \in p.live0 : ComponentOf(o) # p.componentName => o \in live
            /\ \A k \in CacheKeys :
                  k # getCRHash(h, p.componentName) => objectCaches[k] = p.cache0[k]
            /\ (p.pc = "done" /\ ~p.dryRun) => DeletedObjs(p) = EligibleAtStart(h, p)

\* DeleteComponent("Pilot") returned: the autoscaler, the Deployment and the
\* cluster role of Pilot were deleted, the ingress gateway lives on and its
\* hash is still cached under the gateway component.
C29_Witness ==
    LET p == pass["i1"] IN
    /\ p.op = "DeleteComponent" /\ p.componentName = PilotComponentName
    /\ p.pc = "done" /\ ~p.dryRun
    /\ {oHPA, oDeploy, oClusterRole} \subseteq DeletedObjs(p)
    /\ oGateway \in live
    /\ Hash(oGateway) \in objectCaches[getCRHash("i1", IngressComponentName)]

\* The objects a scan of installation h lists at the start of pass p: of a
\* kind whose list call succeeds, with the core ownership labels of h and a
\* component label.
ListedAtStart(h, p) ==
    { o \in p.live0 :
        /\ o.gvk \in Range(ScanKinds) \ apiDown
        /\ operatorLabelStr \in DOMAIN o.labels
        /\ o.labels[operatorLabelStr] = operatorReconcileStr
        /\ OwningResourceName \in DOMAIN o.labels
        /\ o.labels[OwningResourceName] = h
        /\ IstioComponentLabelStr \in DOMAIN o.labels }

\* C30: for the empty component name the component selector is the core
\* ownership labels, so DeleteComponent("") attempts to delete every listed
\* object of the installation, of every component.
C30_EmptyNameSelectsEveryComponent ==
    \A h \in Installs :
        LET p == pass[h] IN
        (p.op = "DeleteComponent" /\ p.componentName = "" /\ p.located) =>
            /\ addComponentLabels(p.labels, "") = getCoreOwnerLabels(h, TRUE).labels
            /\ (p.pc = "done" /\ ~p.dryRun) => DeletedObjs(p) = ListedAtStart(h, p)
            /\ (p.pc = "done" /\ p.dryRun) =>
                  { p.report[i].o : i \in 1..Len(p.report) } = ListedAtStart(h, p)

\* DeleteComponent("") returned: it deleted the Deployment of Pilot and the
\* Deployment of the ingress gateway, and not the Deployment of installation i2.
C30_Witness ==
    LET p == pass["i1"] IN
    /\ p.op = "DeleteComponent" /\ p.componentName = ""
    /\ p.pc = "done" /\ ~p.dryRun
    /\ {oDeploy, oGateway} \subseteq DeletedObjs(p)
    /\ oOther \in live /\ oOther \notin DeletedObjs(p)

\* ------------------------------------------- claims: the declared kind lists

\* In the list gvks every kind named in first is present and stands before
\* every kind named in later.
Precede(gvks, first, later) ==
    /\ \A kind \in first \cup later : \E i \in 1..Len(gvks) : gvks[i].Kind = kind
    /\ \A i, j \in 1..Len(gvks) :
          (gvks[i].Kind \in first /\ gvks[j].Kind \in later) => i < j

WorkloadKinds == {"Deployment", "DaemonSet"}

ConfigKinds ==
    {"Service", "ConfigMap", "PersistentVolumeClaim", "Pod", "Secret", "ServiceAccount"}

RoleKinds == {"RoleBinding", "Role"}

MeshKinds ==
    {"DestinationRule", "EnvoyFilter", "Gateway", "VirtualService", "PeerAuthentication"}

\* The dependency order of the two declared lists, and no kind twice in their
\* concatenation.
DeclaredOrder ==
    /\ Precede(NamespacedResources, {"HorizontalPodAutoscaler"}, {"PodDisruptionBudget"})
    /\ Precede(NamespacedResources, {"PodDisruptionBudget"}, WorkloadKinds)
    /\ Precede(NamespacedResources, WorkloadKinds, ConfigKinds)
    /\ Precede(NamespacedResources, ConfigKinds, RoleKinds)
    /\ Precede(NamespacedResources, RoleKinds, MeshKinds)
    /\ Precede(ClusterResources,
               {"MutatingWebhookConfiguration", "ValidatingWebhookConfiguration"},
               {"ClusterRole", "ClusterRoleBinding"})
    /\ \A i, j \in 1..Len(ScanKinds) : ScanKinds[i] = ScanKinds[j] => i = j

\* C31: the declared kind lists respect the dependency order (autoscaler,
\* disruption budget, workloads, services and configuration, roles, mesh
\* routing and policy kinds; webhook configurations before cluster roles and
\* bindings), and no kind stands twice in the list a pass scans: a pass issues
\* one list call per kind.
C31_KindListsRespectDependencies ==
    /\ DeclaredOrder
    /\ \A h \in Installs :
          pass[h].op \in {"Prune", "DeleteComponent"} =>
              /\ pass[h].listCalls = Cardinality(pass[h].listed)
              /\ pass[h].listed = { ScanKinds[i] : i \in 1..(pass[h].idx - 1) }

\* A DeleteComponent pass returned after listing each of the twenty-one kinds
\* once; it deleted the autoscaler, the Deployment and the cluster role.
C31_Witness ==
    LET p == pass["i1"] IN
    /\ p.op = "DeleteComponent" /\ p.pc = "done" /\ p.located /\ ~p.dryRun
    /\ p.listCalls = 21 /\ p.listed = Range(NamespacedResources) \cup Range(ClusterResources)
    /\ [i \in 1..Len(p.deletes) |-> p.deletes[i].o] = << oHPA, oDeploy, oClusterRole >>

\* ------------------------------------------- claims: unparseable constraints

\* The mappings of the dispatch r with a constraint string that does not parse.
Malformed(r) ==
    { m \in 1..Len(r.hml) :
        ~(WellFormed(r.hml[m].sourceVersionConstraint)
            /\ WellFormed(r.hml[m].targetVersionConstraint)) }

\* C32: a mapping whose source or target constraint string cannot be parsed
\* adds exactly one error to the result and none of its hooks is invoked; the
\* run is not aborted: every later mapping is evaluated and run as usual.
C32_UnparseableConstraintAddsOneError ==
    LET r == hookRun IN
    Dispatched(r) =>
        /\ Len(r.evaluated) = Len(r.hml)
        /\ \A m \in Malformed(r) :
              /\ ~IsNil(r.evaluated[m].err)
              /\ HooksRunOf(r, m) = {}
        /\ Cardinality({ n \in 1..Len(r.result) :
                            r.result[n].reason = "MalformedConstraint" })
              = Cardinality(Malformed(r))
        /\ \A m \in (1..Len(r.hml)) \ Malformed(r) :
              (HooksRunOf(r, m) = 1..Len(r.hml[m].hooks)) <=>
                  /\ Satisfies(r.hc.SourceVer, r.hml[m].sourceVersionConstraint)
                  /\ Satisfies(r.hc.TargetVer, r.hml[m].targetVersionConstraint)
                  /\ ~r.dryRun

\* ------------------------------------------- claims: the manifest map

ExtraIn(d) ==
    { it \in Range(kube.crs) :
        it.kind \in DOMAIN CRKindNamesMap /\ ByKindName(it) \notin DOMAIN d }

\* C34: the list-based checkMixerTelemetry returns an error when the cluster
\* holds a resource of a catalogued kind without counterpart in the defaults,
\* returns an error when a resource present in both differs, and returns no
\* error otherwise, whatever defaults the cluster lacks (the reads of the
\* cluster succeeding and every spec being a map).
C34_ListVariantReportsExtraAndDrift ==
    \A inv \in InvokedOf(hookRun) :
        LET d == hookRun.hc.DefaultTelemetryManifest IN
        inv.hook = "checkMixerTelemetryList" =>
            /\ ExtraIn(d) # {} => inv.errs # << >>
            /\ Objectionable(d, ByKindName) # {} => inv.errs # << >>
            /\ Len(inv.errs) <= 1
            /\ (kube.getErr = {} /\ \A it \in Range(kube.crs) : it.spec.isMap) =>
                  /\ (ExtraIn(d) = {} /\ Objectionable(d, ByKindName) = {})
                        => inv.errs = << >>
                  /\ \A e \in Range(inv.errs) :
                        /\ e.reason \in {"Extra", "Customized"}
                        /\ e.reason = "Extra" => ExtraIn(d) # {}
                        /\ e.reason = "Customized" => Objectionable(d, ByKindName) # {}

\* The list-based check was called with the defaults of the catalogue on a
\* cluster that holds two of them unchanged and a rule without default: it
\* returned the error about extra configs.
C34_Witness ==
    LET d == hookRun.hc.DefaultTelemetryManifest IN
    /\ kube.getErr = {}
    /\ d = DefaultsByKindName
    /\ Cardinality(ExtraIn(d)) = 1 /\ Objectionable(d, ByKindName) = {}
    /\ Len(kube.crs) = 3
    /\ \E inv \in InvokedOf(hookRun) :
          /\ inv.hook = "checkMixerTelemetryList"
          /\ Len(inv.errs) = 1 /\ inv.errs[1].reason = "Extra"

\* ------------------------------------------- claims: applying the manifests

\* The texts on stderr that are empty once trimmed or start, once trimmed,
\* with the warning of kubectl apply.
HarmlessStderrs ==
    { << >>, << " ", "\n" >>,
      << " ", "Warning: kubectl apply should be used on resource created by either",
         "kubectl create --save-config or kubectl apply", "\n" >>,
      << "Warning: kubectl apply should be used on resource created by either",
         "kubectl create --save-config or kubectl apply", "\n",
         "deployment.apps/istiod configured" >> }

\* The components of a call whose output is skipped: disabled in the spec,
\* applied without error, with an empty applied manifest.
SkippedIn(a) ==
    { cn \in DOMAIN a.in.out :
        /\ cn \notin a.in.enabledInSpec
        /\ IsNil(a.in.out[cn].Err)
        /\ a.in.out[cn].Manifest = << >> }

\* C35: having applied all components, genApplyManifests returns an error
\* exactly when some component's apply result carries an error or some
\* component that is not skipped wrote to stderr a text that is neither
\* empty once trimmed nor starts with the known warning; otherwise it logs
\* that the installation is complete. Every deprecated component name has a
\* manifest entry in what is handed to ApplyAll.
C35_ApplyFailsExactlyOnComponentErrors ==
    apply.pc = "done" =>
        LET in == apply.in
            res == apply.res
            Failed == \E cn \in DOMAIN in.out :
                         \/ ~IsNil(in.out[cn].Err)
                         \/ /\ cn \notin SkippedIn(apply)
                            /\ in.out[cn].Stderr \notin HarmlessStderrs
        IN /\ res.applied =>
                /\ \A cn \in Range(in.DeprecatedNames) :
                      cn \in DOMAIN res.manifests /\ res.manifests[cn] # << >>
                /\ \A cn \in DOMAIN in.manifests :
                      /\ cn \in DOMAIN res.manifests
                      /\ SubSeq(res.manifests[cn], 1, Len(in.manifests[cn]))
                            = in.manifests[cn]
           /\ (res.applied /\ IsNil(in.applyErr)) =>
                /\ ~IsNil(res.err) <=> Failed
                /\ ~Failed <=> res.logged = "Installation complete"
           /\ res.applied <=> (IsNil(in.treeErr) /\ IsNil(in.clientErr) /\ IsNil(in.genErr))

\* A call applied two components without error: the one, disabled and with
\* an empty applied manifest, wrote an error to stderr and was skipped; the
\* other, a deprecated name nothing was rendered for, wrote the warning
\* between white space; the installation is reported complete.
C35_Witness ==
    /\ apply.pc = "done"
    /\ apply.res.applied /\ IsNil(apply.res.err)
    /\ apply.res.logged = "Installation complete"
    /\ apply.in.DeprecatedNames = << IngressComponentName >>
    /\ DOMAIN apply.in.manifests = {PilotComponentName}
    /\ SkippedIn(apply) = {PilotComponentName}
    /\ apply.in.out[PilotComponentName].Stderr = << "error: unable to recognize" >>
    /\ Len(apply.in.out[IngressComponentName].Stderr) = 4
    /\ apply.in.out[IngressComponentName].Stderr[1] = " "

====
